---- MODULE Spec2Model ----
(***************************************************************************)
(* Model of the AWS MCP server of the-aiops-book:                          *)
(*   - Server.Start, the stdio message loop        (pkg/mcp/server.go)     *)
(*   - Server.registerTools, the tool closures     (pkg/mcp/server.go)     *)
(*   - ToolHandler.CallTool and the four tools     (pkg/mcp/tools.go)      *)
(*   - MCPTestClient.CallToolWithError             (ch4/test/mcp)          *)
(*   - ResourceHandler.ReadResource and formatting (pkg/mcp/resources.go)  *)
(*   - aws.Client list / get / convert             (pkg/aws/client.go)     *)
(*   - Server.registerResources, the read closures (pkg/mcp/server.go)     *)
(* Strings the program builds or searches are sequences of tokens, so that *)
(* fmt.Sprintf is concatenation and strings.Contains / assert.Contains is  *)
(* a search for a contiguous run of tokens.                                *)
(***************************************************************************)
EXTENDS Naturals, Sequences, FiniteSets, TLC

VARIABLES
    pc,         \* where Server.Start is: Scan, Select, Dispatching, Writing, Stopped
    cancelled,  \* ctx.Done() is closed
    scanner,    \* the bufio.Scanner: open, eof (Scan returned false), fault (Err() is set)
    line,       \* scanner.Bytes(): the line the last successful Scan returned
    input,      \* history: the lines Scan has returned so far
    nread,      \* how many lines Scan has returned so far
    response,   \* the value HandleMessage returned for the current line
    out,        \* os.Stdout: the response lines written so far
    ret,        \* what Start returned: none, nil, ctxErr, readErr
    calls,      \* the collaborator (aws.Client) operations invoked so far
    log,        \* history: the loop's read / dispatch / write events, in order
    registry,   \* the tools registered with the mcp-go server (name -> forwarded name)
    req,        \* one call of a tool: name, arguments, collaborator answer, clock
    res,        \* the outcome of that call, and the way it was made
    ec2,        \* the instances DescribeInstances reports (the backing state of the reads)
    clock,      \* time.Now(), in seconds, as the resource reads see it
    reads       \* history: the resource reads made so far, with their outcomes

vars == <<pc, cancelled, scanner, line, input, nread, response, out, ret, calls, log, registry, req, res, ec2, clock, reads>>

----------------------------------------------------------------------------
(* Bounds *)

\* How many lines the scanner returns at most in one behaviour.
MaxLines == 3

----------------------------------------------------------------------------
(* Values: JSON / interface{} values, all of one record shape *)

Str(s) == [t |-> "string", b |-> FALSE, s |-> s]

Bool(b) == [t |-> "bool", b |-> b, s |-> <<>>]

Num(s) == [t |-> "number", b |-> FALSE, s |-> s]

Null == [t |-> "null", b |-> FALSE, s |-> <<>>]

\* v.(string): the comma-ok type assertion; the zero value "" when it fails.
AsString(v) == IF v.t = "string" THEN [val |-> v.s, ok |-> TRUE] ELSE [val |-> <<>>, ok |-> FALSE]

\* arguments[key]: a missing key yields the nil interface.
MapGet(m, key) == IF key \in DOMAIN m THEN m[key] ELSE Null

EmptyMap == [k \in {} |-> Null]

\* strings.Contains on token sequences: pat is a contiguous run of s.
Contains(s, pat) == \E i \in 0..(Len(s) - Len(pat)) : SubSeq(s, i + 1, i + Len(pat)) = pat

----------------------------------------------------------------------------
(* encoding/json *)

\* The object keys the program marshals, in the byte order json.Marshal sorts them.
KeyOrder ==
    <<"Environment", "Name", "action", "details", "environment", "error", "id", "instanceId", "instanceType",
      "instances", "last_seen", "launchTime", "message", "name", "placement", "privateIpAddress", "private_ip",
      "publicIpAddress", "public_ip", "region", "running", "state", "stopped", "success", "summary_by_state",
      "summary_by_type", "t2.micro", "t3.small", "tags", "timestamp", "total_instances", "type">>

\* json.MarshalIndent of a map[string]interface{}: the members, sorted by key.
MarshalIndent(m) == LET keys == SelectSeq(KeyOrder, LAMBDA k : k \in DOMAIN m)
                    IN  [i \in 1..Len(keys) |-> [key |-> keys[i], value |-> m[keys[i]]]]

\* A nested map, as json.MarshalIndent writes it inside another value.
Obj(m) == [t |-> "object", b |-> FALSE, s |-> MarshalIndent(m)]

\* A slice of maps, as json.MarshalIndent writes it.
List(items) == [t |-> "list", b |-> FALSE, s |-> [i \in 1..Len(items) |-> MarshalIndent(items[i])]]

\* An int, as json.MarshalIndent writes it.
Int(n) == [t |-> "number", b |-> FALSE, s |-> <<ToString(n)>>]

\* json.Unmarshal of such a text into a map[string]interface{}.
Unmarshal(text) == [k \in {text[i].key : i \in 1..Len(text)} |-> text[CHOOSE i \in 1..Len(text) : text[i].key = k].value]

\* The value the text gives to a key (Null when the key is not a member).
Member(text, key) == IF \E i \in 1..Len(text) : text[i].key = key THEN text[CHOOSE i \in 1..Len(text) : text[i].key = key].value ELSE Null

\* assert.Contains(text, "<words>"): the words occur inside a string member.
TextContains(text, pat) == \E i \in 1..Len(text) : text[i].value.t = "string" /\ Contains(text[i].value.s, pat)

\* assert.Contains(text, "\"success\": false")
TextSaysSuccess(text, b) == \E i \in 1..Len(text) : text[i].key = "success" /\ text[i].value = Bool(b)

----------------------------------------------------------------------------
(* mcp.CallToolResult, error, and the outcome of a handler *)

NilResult == [nil |-> TRUE, Content |-> <<>>]

NilError == [nil |-> TRUE, msg |-> <<>>]

TextResult(text) == [nil |-> FALSE, Content |-> <<[Type |-> "text", Text |-> text]>>]

\* fmt.Errorf(...)
Errorf(msg) == [nil |-> FALSE, msg |-> msg]

\* What a handler returns, with the collaborator operations it invoked on the way.
Outcome(result, err, invoked) == [result |-> result, err |-> err, calls |-> invoked]

----------------------------------------------------------------------------
(* ToolHandler *)

\* Mutant of createErrorResponse: the timestamp is left out.
createErrorResponse_NoTimestamp(message, now) ==
    LET errorData == [success |-> Bool(FALSE), error |-> Str(message)]
    IN  TextResult(MarshalIndent(errorData))

createErrorResponse(message, now) ==
    LET errorData == [success |-> Bool(FALSE), error |-> Str(message), timestamp |-> Str(now)]
    IN  TextResult(MarshalIndent(errorData))

\* Mutant of createSuccessResponse: the base fields are written after the data.
createSuccessResponse_BaseWins(message, data, now) ==
    LET base == [success |-> Bool(TRUE), message |-> Str(message), timestamp |-> Str(now)]
        responseData == base @@ data
    IN  TextResult(MarshalIndent(responseData))

createSuccessResponse(message, data, now) ==
    LET base == [success |-> Bool(TRUE), message |-> Str(message), timestamp |-> Str(now)]
        responseData == data @@ base
    IN  TextResult(MarshalIndent(responseData))

\* Mutant of Optional: a value that is not a string is passed on as its text.
Optional_KeepsValue(arguments, key) == IF key \in DOMAIN arguments THEN arguments[key].s ELSE <<>>

\* The optional parameters of create-ec2-instance: val.(string) when the key exists.
Optional(arguments, key) == IF key \in DOMAIN arguments THEN AsString(arguments[key]).val ELSE <<>>

\* Mutant of createEC2Instance: the required parameters are type-checked but
\* an empty string is let through.
createEC2Instance_NoEmptyCheck(arguments, collab, now) ==
    LET imageID == AsString(MapGet(arguments, "imageId"))
        instanceType == AsString(MapGet(arguments, "instanceType"))
        params == [ImageID |-> imageID.val, InstanceType |-> instanceType.val,
                   KeyName |-> Optional(arguments, "keyName"),
                   SecurityGroupID |-> Optional(arguments, "securityGroupId"),
                   SubnetID |-> Optional(arguments, "subnetId"),
                   Name |-> Optional(arguments, "name")]
        invoked == <<[op |-> "CreateEC2Instance", params |-> params]>>
        data == [instanceId |-> Str(collab.resource.ID), state |-> Str(collab.resource.State),
                 instanceType |-> MapGet(collab.resource.Details, "instanceType")]
    IN  IF ~imageID.ok
        THEN Outcome(createErrorResponse(<<"imageId", " is required">>, now), NilError, <<>>)
        ELSE IF ~instanceType.ok
        THEN Outcome(createErrorResponse(<<"instanceType", " is required">>, now), NilError, <<>>)
        ELSE IF collab.fails
        THEN Outcome(createErrorResponse(<<"failed to ", "create", " EC2 instance", ": ">> \o collab.err, now), NilError, invoked)
        ELSE Outcome(createSuccessResponse(<<"EC2 instance created successfully">>, data, now), NilError, invoked)

\* Mutant of createEC2Instance: instanceType is checked before imageId.
createEC2Instance_TypeFirst(arguments, collab, now) ==
    LET imageID == AsString(MapGet(arguments, "imageId"))
        instanceType == AsString(MapGet(arguments, "instanceType"))
        params == [ImageID |-> imageID.val, InstanceType |-> instanceType.val,
                   KeyName |-> Optional(arguments, "keyName"),
                   SecurityGroupID |-> Optional(arguments, "securityGroupId"),
                   SubnetID |-> Optional(arguments, "subnetId"),
                   Name |-> Optional(arguments, "name")]
        invoked == <<[op |-> "CreateEC2Instance", params |-> params]>>
        data == [instanceId |-> Str(collab.resource.ID), state |-> Str(collab.resource.State),
                 instanceType |-> MapGet(collab.resource.Details, "instanceType")]
    IN  IF ~instanceType.ok \/ instanceType.val = <<>>
        THEN Outcome(createErrorResponse(<<"instanceType", " is required">>, now), NilError, <<>>)
        ELSE IF ~imageID.ok \/ imageID.val = <<>>
        THEN Outcome(createErrorResponse(<<"imageId", " is required">>, now), NilError, <<>>)
        ELSE IF collab.fails
        THEN Outcome(createErrorResponse(<<"failed to ", "create", " EC2 instance", ": ">> \o collab.err, now), NilError, invoked)
        ELSE Outcome(createSuccessResponse(<<"EC2 instance created successfully">>, data, now), NilError, invoked)

createEC2Instance(arguments, collab, now) ==
    LET imageID == AsString(MapGet(arguments, "imageId"))
        instanceType == AsString(MapGet(arguments, "instanceType"))
        params == [ImageID |-> imageID.val, InstanceType |-> instanceType.val,
                   KeyName |-> Optional(arguments, "keyName"),
                   SecurityGroupID |-> Optional(arguments, "securityGroupId"),
                   SubnetID |-> Optional(arguments, "subnetId"),
                   Name |-> Optional(arguments, "name")]
        invoked == <<[op |-> "CreateEC2Instance", params |-> params]>>
        data == [instanceId |-> Str(collab.resource.ID), state |-> Str(collab.resource.State),
                 instanceType |-> MapGet(collab.resource.Details, "instanceType")]
    IN  IF ~imageID.ok \/ imageID.val = <<>>
        THEN Outcome(createErrorResponse(<<"imageId", " is required">>, now), NilError, <<>>)
        ELSE IF ~instanceType.ok \/ instanceType.val = <<>>
        THEN Outcome(createErrorResponse(<<"instanceType", " is required">>, now), NilError, <<>>)
        ELSE IF collab.fails
        THEN Outcome(createErrorResponse(<<"failed to ", "create", " EC2 instance", ": ">> \o collab.err, now), NilError, invoked)
        ELSE Outcome(createSuccessResponse(<<"EC2 instance created successfully">>, data, now), NilError, invoked)

\* Mutant of startEC2Instance: the id is taken as text whatever its type.
startEC2Instance_AnyType(arguments, collab, now) ==
    LET instanceID == [val |-> MapGet(arguments, "instanceId").s, ok |-> "instanceId" \in DOMAIN arguments]
        invoked == <<[op |-> "StartEC2Instance", params |-> [InstanceID |-> instanceID.val]]>>
        data == [instanceId |-> Str(instanceID.val), action |-> Str(<<"start">>)]
    IN  IF ~instanceID.ok \/ instanceID.val = <<>>
        THEN Outcome(createErrorResponse(<<"instanceId", " is required">>, now), NilError, <<>>)
        ELSE IF collab.fails
        THEN Outcome(createErrorResponse(<<"failed to ", "start", " EC2 instance", ": ">> \o collab.err, now), NilError, invoked)
        ELSE Outcome(createSuccessResponse(<<"EC2 instance start initiated successfully">>, data, now), NilError, invoked)

startEC2Instance(arguments, collab, now) ==
    LET instanceID == AsString(MapGet(arguments, "instanceId"))
        invoked == <<[op |-> "StartEC2Instance", params |-> [InstanceID |-> instanceID.val]]>>
        data == [instanceId |-> Str(instanceID.val), action |-> Str(<<"start">>)]
    IN  IF ~instanceID.ok \/ instanceID.val = <<>>
        THEN Outcome(createErrorResponse(<<"instanceId", " is required">>, now), NilError, <<>>)
        ELSE IF collab.fails
        THEN Outcome(createErrorResponse(<<"failed to ", "start", " EC2 instance", ": ">> \o collab.err, now), NilError, invoked)
        ELSE Outcome(createSuccessResponse(<<"EC2 instance start initiated successfully">>, data, now), NilError, invoked)

\* Mutant of stopEC2Instance: a failed collaborator call is returned as an error.
stopEC2Instance_ReturnsError(arguments, collab, now) ==
    LET instanceID == AsString(MapGet(arguments, "instanceId"))
        invoked == <<[op |-> "StopEC2Instance", params |-> [InstanceID |-> instanceID.val]]>>
        data == [instanceId |-> Str(instanceID.val), action |-> Str(<<"stop">>)]
    IN  IF ~instanceID.ok \/ instanceID.val = <<>>
        THEN Outcome(createErrorResponse(<<"instanceId", " is required">>, now), NilError, <<>>)
        ELSE IF collab.fails
        THEN Outcome(NilResult, Errorf(<<"failed to ", "stop", " EC2 instance", ": ">> \o collab.err), invoked)
        ELSE Outcome(createSuccessResponse(<<"EC2 instance stop initiated successfully">>, data, now), NilError, invoked)

stopEC2Instance(arguments, collab, now) ==
    LET instanceID == AsString(MapGet(arguments, "instanceId"))
        invoked == <<[op |-> "StopEC2Instance", params |-> [InstanceID |-> instanceID.val]]>>
        data == [instanceId |-> Str(instanceID.val), action |-> Str(<<"stop">>)]
    IN  IF ~instanceID.ok \/ instanceID.val = <<>>
        THEN Outcome(createErrorResponse(<<"instanceId", " is required">>, now), NilError, <<>>)
        ELSE IF collab.fails
        THEN Outcome(createErrorResponse(<<"failed to ", "stop", " EC2 instance", ": ">> \o collab.err, now), NilError, invoked)
        ELSE Outcome(createSuccessResponse(<<"EC2 instance stop initiated successfully">>, data, now), NilError, invoked)

\* Mutant of terminateEC2Instance: the test for the empty string is inverted.
terminateEC2Instance_InvertedCheck(arguments, collab, now) ==
    LET instanceID == AsString(MapGet(arguments, "instanceId"))
        invoked == <<[op |-> "TerminateEC2Instance", params |-> [InstanceID |-> instanceID.val]]>>
        data == [instanceId |-> Str(instanceID.val), action |-> Str(<<"terminate">>)]
    IN  IF ~instanceID.ok \/ instanceID.val # <<>>
        THEN Outcome(createErrorResponse(<<"instanceId", " is required">>, now), NilError, <<>>)
        ELSE IF collab.fails
        THEN Outcome(createErrorResponse(<<"failed to ", "terminate", " EC2 instance", ": ">> \o collab.err, now), NilError, invoked)
        ELSE Outcome(createSuccessResponse(<<"EC2 instance termination initiated successfully">>, data, now), NilError, invoked)

terminateEC2Instance(arguments, collab, now) ==
    LET instanceID == AsString(MapGet(arguments, "instanceId"))
        invoked == <<[op |-> "TerminateEC2Instance", params |-> [InstanceID |-> instanceID.val]]>>
        data == [instanceId |-> Str(instanceID.val), action |-> Str(<<"terminate">>)]
    IN  IF ~instanceID.ok \/ instanceID.val = <<>>
        THEN Outcome(createErrorResponse(<<"instanceId", " is required">>, now), NilError, <<>>)
        ELSE IF collab.fails
        THEN Outcome(createErrorResponse(<<"failed to ", "terminate", " EC2 instance", ": ">> \o collab.err, now), NilError, invoked)
        ELSE Outcome(createSuccessResponse(<<"EC2 instance termination initiated successfully">>, data, now), NilError, invoked)

\* Mutant of CallTool: an unknown name yields neither a result nor an error.
CallTool_UnknownIsNothing(name, arguments, collab, now) ==
    CASE name = "create-ec2-instance" -> createEC2Instance(arguments, collab, now)
      [] name = "start-ec2-instance" -> startEC2Instance(arguments, collab, now)
      [] name = "stop-ec2-instance" -> stopEC2Instance(arguments, collab, now)
      [] name = "terminate-ec2-instance" -> terminateEC2Instance(arguments, collab, now)
      [] OTHER -> Outcome(NilResult, NilError, <<>>)

\* Mutant of CallTool: an unknown name is reported as a Failure payload.
CallTool_UnknownIsFailure(name, arguments, collab, now) ==
    CASE name = "create-ec2-instance" -> createEC2Instance(arguments, collab, now)
      [] name = "start-ec2-instance" -> startEC2Instance(arguments, collab, now)
      [] name = "stop-ec2-instance" -> stopEC2Instance(arguments, collab, now)
      [] name = "terminate-ec2-instance" -> terminateEC2Instance(arguments, collab, now)
      [] OTHER -> Outcome(createErrorResponse(<<"unknown tool", ": ", name>>, now), NilError, <<>>)

CallTool(name, arguments, collab, now) ==
    CASE name = "create-ec2-instance" -> createEC2Instance(arguments, collab, now)
      [] name = "start-ec2-instance" -> startEC2Instance(arguments, collab, now)
      [] name = "stop-ec2-instance" -> stopEC2Instance(arguments, collab, now)
      [] name = "terminate-ec2-instance" -> terminateEC2Instance(arguments, collab, now)
      [] OTHER -> Outcome(NilResult, Errorf(<<"unknown tool", ": ", name>>), <<>>)

----------------------------------------------------------------------------
(* JSON-RPC messages *)

\* The id of a message that carries none (a notification, an undecodable line).
NoId == "null"

NilMessage == [nil |-> TRUE, type |-> "none", id |-> NoId, result |-> NilResult, error |-> <<>>]

JSONRPCResponse(id, result) == [nil |-> FALSE, type |-> "JSONRPCResponse", id |-> id, result |-> result, error |-> <<>>]

JSONRPCError(id, msg) == [nil |-> FALSE, type |-> "JSONRPCError", id |-> id, result |-> NilResult, error |-> msg]

\* request.Params.Arguments is an `any`: a JSON object, or something else (null, a list, ...).
ObjectArgs(m) == [isMap |-> TRUE, m |-> m]

NotAMap == [isMap |-> FALSE, m |-> EmptyMap]

\* One line of standard input.
EmptyLine == [kind |-> "empty", id |-> NoId, method |-> "", name |-> "", arguments |-> NotAMap]

MalformedLine == [kind |-> "malformed", id |-> NoId, method |-> "", name |-> "", arguments |-> NotAMap]

NotificationLine == [kind |-> "notification", id |-> NoId, method |-> "notifications/initialized", name |-> "", arguments |-> NotAMap]

RequestLine(id, method, name, arguments) == [kind |-> "request", id |-> id, method |-> method, name |-> name, arguments |-> arguments]

\* Mutant of LineLen: an empty line is not recognised as empty.
LineLen_NeverZero(l) == 1

\* len(line)
LineLen(l) == IF l.kind = "empty" THEN 0 ELSE 1

----------------------------------------------------------------------------
(* aws.Client: the read side of the collaborator (ch5 pkg/aws/client.go) *)

\* How many instances DescribeInstances reports at most.
MaxInstances == 2

\* c.cfg.Region
Region == <<"us-east-1">>

NoString == [nil |-> TRUE, val |-> <<>>]

\* The k-th ec2types.Instance of the account: odd ones run, are tagged and
\* have addresses; even ones are stopped, untagged and have none.
EC2Instance(k) ==
    IF k % 2 = 1
    THEN [InstanceId |-> <<"i-", ToString(k)>>, InstanceType |-> <<"t2.micro">>, State |-> <<"running">>,
          Tags |-> [Name |-> <<"web">>, Environment |-> <<"prod">>],
          PublicIpAddress |-> [nil |-> FALSE, val |-> <<"54.0.0.", ToString(k)>>],
          PrivateIpAddress |-> [nil |-> FALSE, val |-> <<"10.0.0.", ToString(k)>>]]
    ELSE [InstanceId |-> <<"i-", ToString(k)>>, InstanceType |-> <<"t3.small">>, State |-> <<"stopped">>,
          Tags |-> [x \in {} |-> <<>>],
          PublicIpAddress |-> NoString, PrivateIpAddress |-> NoString]

\* The error the EC2 API returns when a call fails.
APIError == <<"api error", " RequestLimitExceeded">>

\* time.Time.Format("2006-01-02T15:04:05Z07:00") of the clock reading t.
FormatTime(t) == <<"2026-01-01T00:00:0", ToString(t), "Z">>

\* convertEC2Instance turns an ec2types.Instance into a types.AWSResource,
\* stamped with the time of the conversion.
convertEC2Instance(instance, now) ==
    [ID |-> instance.InstanceId, Type |-> <<"ec2-instance">>, Region |-> Region, State |-> instance.State,
     Tags |-> instance.Tags,
     Details |-> (IF instance.PublicIpAddress.nil THEN EmptyMap ELSE [publicIpAddress |-> Str(instance.PublicIpAddress.val)])
                 @@ (IF instance.PrivateIpAddress.nil THEN EmptyMap ELSE [privateIpAddress |-> Str(instance.PrivateIpAddress.val)])
                 @@ [instanceType |-> Str(instance.InstanceType), placement |-> Str(<<"us-east-1a">>),
                     launchTime |-> Str(<<"2025-12-31T00:00:00Z">>)],
     LastSeen |-> now]

\* The zero types.AWSResource.
NoResource ==
    [ID |-> <<>>, Type |-> <<>>, Region |-> <<>>, State |-> <<>>, Tags |-> [x \in {} |-> <<>>],
     Details |-> EmptyMap, LastSeen |-> 0]

\* ListEC2Instances: DescribeInstances, then every instance converted.
ListEC2Instances(fleet, apiFails, now) ==
    IF apiFails
    THEN [resources |-> <<>>, err |-> Errorf(<<"failed to describe instances", ": ">> \o APIError)]
    ELSE [resources |-> [i \in 1..Len(fleet) |-> convertEC2Instance(fleet[i], now)], err |-> NilError]

\* GetEC2Instance: DescribeInstances filtered by the id, then the first instance converted.
GetEC2Instance(fleet, apiFails, instanceID, now) ==
    LET found == SelectSeq(fleet, LAMBDA i : i.InstanceId = instanceID)
    IN  IF apiFails
        THEN [nil |-> TRUE, resource |-> NoResource,
              err |-> Errorf(<<"failed to describe instance ">> \o instanceID \o <<": ">> \o APIError)]
        ELSE IF Len(found) = 0
        THEN [nil |-> TRUE, resource |-> NoResource,
              err |-> Errorf(<<"instance ">> \o instanceID \o <<" not found">>)]
        ELSE [nil |-> FALSE, resource |-> convertEC2Instance(found[1], now), err |-> NilError]

----------------------------------------------------------------------------
(* ResourceHandler (ch5 pkg/mcp/resources.go) *)

NilReadResult == [nil |-> TRUE, Contents |-> <<>>]

\* &mcp.ReadResourceResult{Contents: [TextResourceContents]}
ReadResult(uri, text) == [nil |-> FALSE, Contents |-> <<[URI |-> uri, MIMEType |-> "application/json", Text |-> text]>>]

ListURI == <<"aws://ec2/instances">>

\* "aws://ec2/instances/"
DetailPrefix == <<"aws://ec2/instances", "/">>

\* strings.HasPrefix
HasPrefix(s, prefix) == Len(s) >= Len(prefix) /\ SubSeq(s, 1, Len(prefix)) = prefix

\* strings.TrimPrefix
TrimPrefix(s, prefix) == IF HasPrefix(s, prefix) THEN SubSeq(s, Len(prefix) + 1, Len(s)) ELSE s

\* How many of the first n instances have the given state (stateCount[state]),
\* and how many have the given string instanceType (typeCount[type]).
RECURSIVE CountState(_, _, _)
CountState(instances, n, state) ==
    IF n = 0 THEN 0
    ELSE CountState(instances, n - 1, state) + (IF instances[n].State = state THEN 1 ELSE 0)

RECURSIVE CountType(_, _, _)
CountType(instances, n, type) ==
    IF n = 0 THEN 0
    ELSE CountType(instances, n - 1, type)
         + (IF AsString(MapGet(instances[n].Details, "instanceType")) = [val |-> type, ok |-> TRUE] THEN 1 ELSE 0)

\* A map[string]string as JSON values.
StringMap(m) == [k \in DOMAIN m |-> Str(m[k])]

\* The token of a one-token string (a map key).
Key(s) == s[1]

\* Mutant of formatInstancesForAI: an instance without a Name tag is left out of the list.
formatInstancesForAI_SkipsUnnamed(instances) ==
    LET n == Len(instances)
        named == SelectSeq(instances, LAMBDA instance : "Name" \in DOMAIN instance.Tags)
        formatted(instance) ==
            [id |-> Str(instance.ID), state |-> Str(instance.State), name |-> Str(instance.Tags["Name"]),
             type |-> MapGet(instance.Details, "instanceType"), region |-> Str(instance.Region)]
        states == {Key(instances[i].State) : i \in 1..n}
    IN  [total_instances |-> Int(n),
         instances |-> List([i \in 1..Len(named) |-> formatted(named[i])]),
         summary_by_state |-> Obj([st \in states |-> Int(CountState(instances, n, <<st>>))]),
         summary_by_type |-> Obj(EmptyMap)]

\* Mutant of formatInstancesForAI: each entry is put in front of those before it.
formatInstancesForAI_Prepends(instances) ==
    LET n == Len(instances)
        formatted(instance) ==
            (IF "Name" \in DOMAIN instance.Tags THEN [name |-> Str(instance.Tags["Name"])] ELSE EmptyMap)
            @@ (IF MapGet(instance.Details, "publicIpAddress") # Null
                THEN [public_ip |-> instance.Details["publicIpAddress"]] ELSE EmptyMap)
            @@ (IF MapGet(instance.Details, "privateIpAddress") # Null
                THEN [private_ip |-> instance.Details["privateIpAddress"]] ELSE EmptyMap)
            @@ [id |-> Str(instance.ID), state |-> Str(instance.State),
                type |-> MapGet(instance.Details, "instanceType"), region |-> Str(instance.Region)]
        states == {Key(instances[i].State) : i \in 1..n}
        types == {Key(AsString(MapGet(instances[i].Details, "instanceType")).val) :
                      i \in {j \in 1..n : AsString(MapGet(instances[j].Details, "instanceType")).ok}}
        stateCount == [st \in states |-> Int(CountState(instances, n, <<st>>))]
        typeCount == [ty \in types |-> Int(CountType(instances, n, <<ty>>))]
    IN  [total_instances |-> Int(n),
         instances |-> List([i \in 1..n |-> formatted(instances[n + 1 - i])]),
         summary_by_state |-> Obj(stateCount),
         summary_by_type |-> Obj(typeCount)]

formatInstancesForAI(instances) ==
    LET n == Len(instances)
        formatted(instance) ==
            (IF "Name" \in DOMAIN instance.Tags THEN [name |-> Str(instance.Tags["Name"])] ELSE EmptyMap)
            @@ (IF MapGet(instance.Details, "publicIpAddress") # Null
                THEN [public_ip |-> instance.Details["publicIpAddress"]] ELSE EmptyMap)
            @@ (IF MapGet(instance.Details, "privateIpAddress") # Null
                THEN [private_ip |-> instance.Details["privateIpAddress"]] ELSE EmptyMap)
            @@ [id |-> Str(instance.ID), state |-> Str(instance.State),
                type |-> MapGet(instance.Details, "instanceType"), region |-> Str(instance.Region)]
        states == {Key(instances[i].State) : i \in 1..n}
        types == {Key(AsString(MapGet(instances[i].Details, "instanceType")).val) :
                      i \in {j \in 1..n : AsString(MapGet(instances[j].Details, "instanceType")).ok}}
        stateCount == [st \in states |-> Int(CountState(instances, n, <<st>>))]
        typeCount == [ty \in types |-> Int(CountType(instances, n, <<ty>>))]
    IN  [total_instances |-> Int(n),
         instances |-> List([i \in 1..n |-> formatted(instances[i])]),
         summary_by_state |-> Obj(stateCount),
         summary_by_type |-> Obj(typeCount)]

formatInstanceForAI(instance) ==
    (IF "Environment" \in DOMAIN instance.Tags /\ instance.Tags["Environment"] # <<>>
     THEN [environment |-> Str(instance.Tags["Environment"])] ELSE EmptyMap)
    @@ [id |-> Str(instance.ID), type |-> Str(instance.Type), state |-> Str(instance.State),
        region |-> Str(instance.Region), tags |-> Obj(StringMap(instance.Tags)),
        details |-> Obj(instance.Details), last_seen |-> Str(FormatTime(instance.LastSeen)),
        name |-> IF "Name" \in DOMAIN instance.Tags THEN Str(instance.Tags["Name"]) ELSE Str(instance.ID)]

readEC2InstancesList(fleet, apiFails, now) ==
    LET listed == ListEC2Instances(fleet, apiFails, now)
        invoked == <<[op |-> "ListEC2Instances", params |-> [InstanceID |-> <<>>]]>>
    IN  IF ~listed.err.nil
        THEN Outcome(NilReadResult, Errorf(<<"failed to list EC2 instances", ": ">> \o listed.err.msg), invoked)
        ELSE Outcome(ReadResult(ListURI, MarshalIndent(formatInstancesForAI(listed.resources))), NilError, invoked)

\* Mutant of readEC2Instance: a failed get is reported inside a result.
readEC2Instance_FailureInResult(fleet, apiFails, instanceID, now) ==
    LET got == GetEC2Instance(fleet, apiFails, instanceID, now)
        invoked == <<[op |-> "GetEC2Instance", params |-> [InstanceID |-> instanceID]]>>
    IN  IF ~got.err.nil
        THEN Outcome(ReadResult(DetailPrefix \o instanceID,
                                MarshalIndent([success |-> Bool(FALSE), error |-> Str(got.err.msg)])), NilError, invoked)
        ELSE Outcome(ReadResult(DetailPrefix \o instanceID, MarshalIndent(formatInstanceForAI(got.resource))), NilError, invoked)

readEC2Instance(fleet, apiFails, instanceID, now) ==
    LET got == GetEC2Instance(fleet, apiFails, instanceID, now)
        invoked == <<[op |-> "GetEC2Instance", params |-> [InstanceID |-> instanceID]]>>
    IN  IF ~got.err.nil
        THEN Outcome(NilReadResult, Errorf(<<"failed to get EC2 instance", ": ">> \o got.err.msg), invoked)
        ELSE Outcome(ReadResult(DetailPrefix \o instanceID, MarshalIndent(formatInstanceForAI(got.resource))), NilError, invoked)

\* Mutant of ReadResource: the prefix case is tried first, on the prefix without its slash.
ReadResource_PrefixFirst(uri, fleet, apiFails, now) ==
    IF HasPrefix(uri, ListURI)
    THEN readEC2Instance(fleet, apiFails, TrimPrefix(TrimPrefix(uri, ListURI), <<"/">>), now)
    ELSE IF uri = ListURI
    THEN readEC2InstancesList(fleet, apiFails, now)
    ELSE Outcome(NilReadResult, Errorf(<<"unknown resource URI", ": ">> \o uri), <<>>)

\* Mutant of ReadResource: the id is percent-decoded before the get.
ReadResource_Decodes(uri, fleet, apiFails, now) ==
    LET Decoded(s) == [i \in 1..Len(s) |-> IF s[i] = "%31" THEN "1" ELSE s[i]]
    IN  IF uri = ListURI
    THEN readEC2InstancesList(fleet, apiFails, now)
    ELSE IF HasPrefix(uri, DetailPrefix)
    THEN readEC2Instance(fleet, apiFails, Decoded(TrimPrefix(uri, DetailPrefix)), now)
    ELSE Outcome(NilReadResult, Errorf(<<"unknown resource URI", ": ">> \o uri), <<>>)

ReadResource(uri, fleet, apiFails, now) ==
    IF uri = ListURI
    THEN readEC2InstancesList(fleet, apiFails, now)
    ELSE IF HasPrefix(uri, DetailPrefix)
    THEN readEC2Instance(fleet, apiFails, TrimPrefix(uri, DetailPrefix), now)
    ELSE Outcome(NilReadResult, Errorf(<<"unknown resource URI", ": ">> \o uri), <<>>)

----------------------------------------------------------------------------
(* Server: the resources it registers *)

\* registerResources: the literal list resource and the instance-detail template,
\* each with the closure registered for it.
registerResources ==
    [resources |-> (ListURI :> "list"),
     templates |-> <<[pattern |-> <<"aws://ec2/instances", "/", "{instanceId}">>, handler |-> "detail"]>>]

\* The closure of the list resource: it reads the literal URI, whatever was asked.
listClosure(uri, fleet, apiFails, now) ==
    LET o == ReadResource(ListURI, fleet, apiFails, now)
    IN  IF ~o.err.nil
        THEN [contents |-> <<>>, err |-> o.err, calls |-> o.calls]
        ELSE [contents |-> o.result.Contents, err |-> NilError, calls |-> o.calls]

\* The closure of the template: it reads request.Params.URI.
templateClosure(uri, fleet, apiFails, now) ==
    LET o == ReadResource(uri, fleet, apiFails, now)
    IN  IF ~o.err.nil
        THEN [contents |-> <<>>, err |-> o.err, calls |-> o.calls]
        ELSE [contents |-> o.result.Contents, err |-> NilError, calls |-> o.calls]

----------------------------------------------------------------------------
(* Server: construction *)

ToolNames == {"create-ec2-instance", "start-ec2-instance", "stop-ec2-instance", "terminate-ec2-instance"}

\* Mutant of registerTools: the stop tool's closure forwards a misspelt name.
registerTools_Misspelt ==
    ("create-ec2-instance" :> "create-ec2-instance") @@
    ("start-ec2-instance" :> "start-ec2-instance") @@
    ("stop-ec2-instance" :> "stop-ec2-instances") @@
    ("terminate-ec2-instance" :> "terminate-ec2-instance")

\* Mutant of registerTools: the stop tool is added under the start tool's name,
\* which replaces the start tool.
registerTools_SameName ==
    ("create-ec2-instance" :> "create-ec2-instance") @@
    ("start-ec2-instance" :> "stop-ec2-instance") @@
    ("terminate-ec2-instance" :> "terminate-ec2-instance")

\* registerTools: each AddTool registers a name with a closure; the closure is
\* recorded by the name it forwards to ToolHandler.CallTool.
registerTools ==
    ("create-ec2-instance" :> "create-ec2-instance") @@
    ("start-ec2-instance" :> "start-ec2-instance") @@
    ("stop-ec2-instance" :> "stop-ec2-instance") @@
    ("terminate-ec2-instance" :> "terminate-ec2-instance")

NewServer == [tools |-> registerTools, resources |-> registerResources.resources, templates |-> registerResources.templates]

\* The parameters registerTools declares mcp.Required(), in declaration order.
Required(name) ==
    CASE name = "create-ec2-instance" -> <<"imageId", "instanceType">>
      [] name \in {"start-ec2-instance", "stop-ec2-instance", "terminate-ec2-instance"} -> <<"instanceId">>
      [] OTHER -> <<>>

\* Mutant of toolClosure: the arguments are passed on without the type assertion.
toolClosure_NoTypeCheck(forward, arguments, collab, now) == CallTool(forward, arguments.m, collab, now)

\* The closure registered for a tool: the type assertion on the arguments, then CallTool.
toolClosure(forward, arguments, collab, now) ==
    IF ~arguments.isMap
    THEN Outcome(NilResult, Errorf(<<"invalid arguments format">>), <<>>)
    ELSE CallTool(forward, arguments.m, collab, now)

\* server.MCPServer.HandleMessage (mcp-go): decode, route by method, invoke the
\* registered handler, wrap the outcome. A notification gets no response.
HandleMessage(reg, l, collab, now) ==
    CASE l.kind = "malformed" -> [resp |-> JSONRPCError(NoId, <<"parse error">>), calls |-> <<>>]
      [] l.kind = "notification" -> [resp |-> NilMessage, calls |-> <<>>]
      [] l.kind = "request" /\ l.method = "tools/call" /\ l.name \notin DOMAIN reg.tools ->
            [resp |-> JSONRPCError(l.id, <<"tool '", l.name, "' ", "not found">>), calls |-> <<>>]
      [] l.kind = "request" /\ l.method = "tools/call" /\ l.name \in DOMAIN reg.tools ->
            LET o == toolClosure(reg.tools[l.name], l.arguments, collab, now)
            IN  IF o.err.nil
                THEN [resp |-> JSONRPCResponse(l.id, o.result), calls |-> o.calls]
                ELSE [resp |-> JSONRPCError(l.id, o.err.msg), calls |-> o.calls]
      [] OTHER -> [resp |-> JSONRPCError(l.id, <<"method not found">>), calls |-> <<>>]

\* json.Marshal(response): the wire line, and whether encoding failed. Every
\* message HandleMessage builds holds strings and booleans only, which encode.
Marshal(m) ==
    [err |-> m.type \notin {"JSONRPCResponse", "JSONRPCError"},
     bytes |-> [id |-> m.id, isError |-> m.type = "JSONRPCError",
                body |-> IF m.type = "JSONRPCError" THEN <<[key |-> "message", value |-> Str(m.error)]>>
                         ELSE IF m.result.nil THEN <<>> ELSE m.result.Content[1].Text]]

----------------------------------------------------------------------------
(* The environment's inputs *)

Ids == {"1", "2"}

\* time.Now().UTC().Format(...), as the clock reads when a handler runs.
TimeAt(k) == <<"2026-01-01T00:00:0", ToString(k), "Z">>

Times == {TimeAt(1), TimeAt(2)}

Instance == [ID |-> <<"i-new">>, State |-> <<"pending">>, Details |-> [instanceType |-> Str(<<"t2.micro">>)]]

NoInstance == [ID |-> <<>>, State |-> <<>>, Details |-> EmptyMap]

\* What the collaborator (aws.Client) answers to the one call a handler makes.
CollabOutcomes ==
    {[fails |-> FALSE, err |-> <<>>, resource |-> Instance],
     [fails |-> TRUE, err |-> <<"api error", " UnauthorizedOperation">>, resource |-> NoInstance]}

\* The lines the message loop is fed.
LoopLines ==
    {EmptyLine, MalformedLine, NotificationLine}
    \cup {RequestLine(id, "tools/call", "start-ec2-instance", ObjectArgs(EmptyMap)) : id \in Ids}
    \cup {RequestLine(id, "tools/call", "stop-ec2-instance", ObjectArgs([instanceId |-> Str(<<"i-1">>)])) : id \in Ids}
    \cup {RequestLine(id, "tools/call", "reboot-ec2-instance", ObjectArgs(EmptyMap)) : id \in Ids}
    \cup {RequestLine(id, "ping/pong", "", NotAMap) : id \in Ids}

----------------------------------------------------------------------------
(* Server.Start: the stdio message loop *)

Event(ev, k) == [ev |-> ev, k |-> k]

\* scanner.Scan() returns true: the next line is in scanner.Bytes().
ScanLine ==
    /\ pc = "Scan"
    /\ nread < MaxLines
    /\ \E l \in LoopLines :
          /\ line' = l
          /\ input' = Append(input, l)
    /\ nread' = nread + 1
    /\ log' = Append(log, Event("read", nread + 1))
    /\ pc' = "Select"
    /\ UNCHANGED <<cancelled, scanner, response, out, ret, calls, registry, req, res, ec2, clock, reads>>

\* scanner.Scan() returns false at the end of input; scanner.Err() will be nil.
ScanEOF ==
    /\ pc = "Scan"
    /\ scanner' = "eof"
    /\ pc' = "AfterLoop"
    /\ UNCHANGED <<cancelled, line, input, nread, response, out, ret, calls, log, registry, req, res, ec2, clock, reads>>

\* scanner.Scan() returns false because the read failed; scanner.Err() holds the fault.
ScanFault ==
    /\ pc = "Scan"
    /\ scanner' = "fault"
    /\ pc' = "AfterLoop"
    /\ UNCHANGED <<cancelled, line, input, nread, response, out, ret, calls, log, registry, req, res, ec2, clock, reads>>

\* Mutant of Select: an empty line is looked at again and again, with no new Scan.
Select_SpinsOnEmpty ==
    /\ pc = "Select"
    /\ IF cancelled
       THEN pc' = "Stopped" /\ ret' = "ctxErr" /\ log' = log
       ELSE IF LineLen(line) = 0
       THEN pc' = "Select" /\ ret' = ret /\ log' = log
       ELSE pc' = "Dispatching" /\ ret' = ret /\ log' = Append(log, Event("dispatch", nread))
    /\ UNCHANGED <<cancelled, scanner, line, input, nread, response, out, calls, registry, req, res, ec2, clock, reads>>

\* Mutant of Select: the cancellation signal is not looked at.
Select_IgnoresCancel ==
    /\ pc = "Select"
    /\ IF LineLen(line) = 0
       THEN pc' = "Scan" /\ ret' = ret /\ log' = log
       ELSE pc' = "Dispatching" /\ ret' = ret /\ log' = Append(log, Event("dispatch", nread))
    /\ UNCHANGED <<cancelled, scanner, line, input, nread, response, out, calls, registry, req, res, ec2, clock, reads>>

\* The select on ctx.Done() with its default branch, up to the call of HandleMessage.
Select ==
    /\ pc = "Select"
    /\ IF cancelled
       THEN pc' = "Stopped" /\ ret' = "ctxErr" /\ log' = log
       ELSE IF LineLen(line) = 0
       THEN pc' = "Scan" /\ ret' = ret /\ log' = log
       ELSE pc' = "Dispatching" /\ ret' = ret /\ log' = Append(log, Event("dispatch", nread))
    /\ UNCHANGED <<cancelled, scanner, line, input, nread, response, out, calls, registry, req, res, ec2, clock, reads>>

\* Mutant of Dispatch: the handler is started and the loop goes on to read.
Dispatch_Async ==
    /\ pc = "Dispatching"
    /\ \E collab \in CollabOutcomes :
          LET h == HandleMessage(registry, line, collab, TimeAt(nread))
          IN  /\ response' = h.resp
              /\ calls' = calls \o h.calls
    /\ pc' = "Scan"
    /\ UNCHANGED <<cancelled, scanner, line, input, nread, out, ret, log, registry, req, res, ec2, clock, reads>>

\* s.mcpServer.HandleMessage(ctx, line) runs and returns.
Dispatch ==
    /\ pc = "Dispatching"
    /\ \E collab \in CollabOutcomes :
          LET h == HandleMessage(registry, line, collab, TimeAt(nread))
          IN  /\ response' = h.resp
              /\ calls' = calls \o h.calls
    /\ pc' = "Writing"
    /\ UNCHANGED <<cancelled, scanner, line, input, nread, out, ret, log, registry, req, res, ec2, clock, reads>>

\* Mutant of Write: the new response goes in front of the earlier ones.
Write_Prepend ==
    /\ pc = "Writing"
    /\ IF response.nil \/ Marshal(response).err
       THEN out' = out /\ log' = log
       ELSE /\ out' = <<Marshal(response).bytes>> \o out
            /\ log' = Append(log, Event("write", nread))
    /\ pc' = "Scan"
    /\ UNCHANGED <<cancelled, scanner, line, input, nread, response, ret, calls, registry, req, res, ec2, clock, reads>>

\* Mutant of Write: an error response is logged and not written.
Write_DropsErrors ==
    /\ pc = "Writing"
    /\ IF response.nil \/ Marshal(response).err \/ response.type = "JSONRPCError"
       THEN out' = out /\ log' = log
       ELSE /\ out' = Append(out, Marshal(response).bytes)
            /\ log' = Append(log, Event("write", nread))
    /\ pc' = "Scan"
    /\ UNCHANGED <<cancelled, scanner, line, input, nread, response, ret, calls, registry, req, res, ec2, clock, reads>>

\* Mutant of Write: a line that gets no response ends the loop instead of continuing it.
Write_ReturnsOnNil ==
    /\ pc = "Writing"
    /\ IF response.nil \/ Marshal(response).err
       THEN out' = out /\ log' = log /\ pc' = "Stopped" /\ ret' = "nil"
       ELSE /\ out' = Append(out, Marshal(response).bytes)
            /\ log' = Append(log, Event("write", nread))
            /\ pc' = "Scan" /\ ret' = ret
    /\ UNCHANGED <<cancelled, scanner, line, input, nread, response, calls, registry, req, res, ec2, clock, reads>>

\* Mutant of Write: a cancelled loop stops before it writes the response.
Write_StopsWhenCancelled ==
    /\ pc = "Writing"
    /\ IF cancelled
       THEN out' = out /\ log' = log /\ pc' = "Stopped" /\ ret' = "ctxErr"
       ELSE /\ IF response.nil \/ Marshal(response).err
               THEN out' = out /\ log' = log
               ELSE /\ out' = Append(out, Marshal(response).bytes)
                    /\ log' = Append(log, Event("write", nread))
            /\ pc' = "Scan" /\ ret' = ret
    /\ UNCHANGED <<cancelled, scanner, line, input, nread, response, calls, registry, req, res, ec2, clock, reads>>

\* The response is encoded and written, unless it is nil or does not encode.
Write ==
    /\ pc = "Writing"
    /\ IF response.nil \/ Marshal(response).err
       THEN out' = out /\ log' = log
       ELSE /\ out' = Append(out, Marshal(response).bytes)
            /\ log' = Append(log, Event("write", nread))
    /\ pc' = "Scan"
    /\ UNCHANGED <<cancelled, scanner, line, input, nread, response, ret, calls, registry, req, res, ec2, clock, reads>>

\* Mutant of Return: a signal that came by the end of the input is reported.
Return_ReportsCancel ==
    /\ pc = "AfterLoop"
    /\ ret' = IF cancelled THEN "ctxErr" ELSE IF scanner = "fault" THEN "readErr" ELSE "nil"
    /\ pc' = "Stopped"
    /\ UNCHANGED <<cancelled, scanner, line, input, nread, response, out, calls, log, registry, req, res, ec2, clock, reads>>

\* Mutant of Return: the read fault is swallowed.
Return_SwallowsFault ==
    /\ pc = "AfterLoop"
    /\ ret' = "nil"
    /\ pc' = "Stopped"
    /\ UNCHANGED <<cancelled, scanner, line, input, nread, response, out, calls, log, registry, req, res, ec2, clock, reads>>

\* After the loop: scanner.Err() decides what Start returns.
Return ==
    /\ pc = "AfterLoop"
    /\ ret' = IF scanner = "fault" THEN "readErr" ELSE "nil"
    /\ pc' = "Stopped"
    /\ UNCHANGED <<cancelled, scanner, line, input, nread, response, out, calls, log, registry, req, res, ec2, clock, reads>>

\* The context is cancelled (a signal arrives), at any moment while Start runs.
Cancel ==
    /\ ~cancelled
    /\ pc # "Stopped"
    /\ cancelled' = TRUE
    /\ log' = Append(log, Event("cancel", nread))
    /\ UNCHANGED <<pc, scanner, line, input, nread, response, out, ret, calls, registry, req, res, ec2, clock, reads>>

NoRequest == [name |-> "", arguments |-> NotAMap, collab |-> CHOOSE c \in CollabOutcomes : c.fails, now |-> <<>>]

NoOutcome == [done |-> FALSE, via |-> "", reg |-> NewServer, result |-> NilResult, err |-> NilError, calls |-> <<>>, resp |-> NilMessage]

Init ==
    /\ pc = "Scan"
    /\ cancelled = FALSE
    /\ scanner = "open"
    /\ line = EmptyLine
    /\ input = <<>>
    /\ nread = 0
    /\ response = NilMessage
    /\ out = <<>>
    /\ ret = "none"
    /\ calls = <<>>
    /\ log = <<>>
    /\ registry = NewServer
    /\ req = NoRequest
    /\ res = NoOutcome
    /\ ec2 = <<>>
    /\ clock = 1
    /\ reads = <<>>

Next == ScanLine \/ ScanEOF \/ ScanFault \/ Select \/ Dispatch \/ Write \/ Return \/ Cancel

Spec == Init /\ [][Next]_vars

\* A step of Start itself: everything but the arrival of the signal.
Step == ScanLine \/ ScanEOF \/ ScanFault \/ Select \/ Dispatch \/ Write \/ Return

\* Start keeps running: the input is finite, so Scan returns, and the
\* handlers return; whether the signal ever comes is left open.
LiveSpec == Init /\ [][Next]_vars /\ WF_vars(Step)

----------------------------------------------------------------------------
(* MCPTestClient: the test client of ch4 *)

\* server.NewMCPServer(...) with no tool added (TestMCPTestClientErrorHandling).
TestServer == [tools |-> EmptyMap, resources |-> EmptyMap, templates |-> <<>>]

\* json.Marshal(request), as the server decodes it: a nil Go map travels as
\* null, any other map as an object; a value JSON cannot carry fails the call.
MarshalRequest(name, arguments) ==
    [err |-> \E k \in DOMAIN arguments.m : arguments.m[k].t \notin {"string", "number", "bool", "null"},
     line |-> RequestLine("1", "tools/call", name, IF arguments.isMap THEN ObjectArgs(arguments.m) ELSE NotAMap)]

\* json.Marshal(jsonResponse.Result): the content items as JSON objects.
MarshalResult(result) == [i \in 1..Len(result.Content) |-> [type |-> result.Content[i].Type, text |-> result.Content[i].Text]]

\* mcp.ParseCallToolResult: every content item must be of a known type.
ParseCallToolResult(raw) ==
    IF \E i \in 1..Len(raw) : raw[i].type # "text"
    THEN [result |-> NilResult, err |-> Errorf(<<"unsupported content type">>)]
    ELSE [result |-> [nil |-> FALSE, Content |-> [i \in 1..Len(raw) |-> [Type |-> "text", Text |-> raw[i].text]]], err |-> NilError]

\* &mcp.CallToolResult{}
EmptyResult == [nil |-> FALSE, Content |-> <<>>]

\* Mutant of CallToolWithError: a JSON-RPC error comes back as an empty result.
CallToolWithError_ErrorAsEmpty(reg, name, arguments, collab, now) ==
    LET request == MarshalRequest(name, arguments)
        h == HandleMessage(reg, request.line, collab, now)
    IN  IF request.err
        THEN Outcome(NilResult, Errorf(<<"json: unsupported type">>), <<>>)
        ELSE IF h.resp.type = "JSONRPCResponse" /\ ~h.resp.result.nil
        THEN Outcome(ParseCallToolResult(MarshalResult(h.resp.result)).result, NilError, h.calls)
        ELSE Outcome(EmptyResult, NilError, h.calls)

CallToolWithError(reg, name, arguments, collab, now) ==
    LET request == MarshalRequest(name, arguments)
        h == HandleMessage(reg, request.line, collab, now)
    IN  IF request.err
        THEN Outcome(NilResult, Errorf(<<"json: unsupported type">>), <<>>)
        ELSE IF h.resp.type = "JSONRPCResponse"
        THEN IF ~h.resp.result.nil
             THEN LET parsed == ParseCallToolResult(MarshalResult(h.resp.result))
                  IN  IF ~parsed.err.nil
                      THEN Outcome(NilResult, parsed.err, h.calls)
                      ELSE Outcome(parsed.result, NilError, h.calls)
             ELSE Outcome(EmptyResult, NilError, h.calls)
        ELSE IF h.resp.type = "JSONRPCError"
        THEN Outcome(NilResult, Errorf(h.resp.error), h.calls)
        ELSE Outcome(NilResult, Errorf(<<"unexpected response type">>), h.calls)

----------------------------------------------------------------------------
(* One call of a tool: directly, through the server, or through the test client *)

\* How many keys an argument map holds at most.
MaxArgs == 3

ArgKeys == {"imageId", "instanceType", "keyName", "securityGroupId", "subnetId", "name", "instanceId"}

\* An argument is an empty string, a non-empty string, or not a string at all.
ArgValues == {Str(<<>>), Str(<<"x-123">>), Num(<<"42">>)}

\* An instance id that happens to read like a validation message.
EchoMaps == {[instanceId |-> Str(<<"i-1", " is required">>)]}

ArgMaps == UNION {[S -> ArgValues] : S \in {T \in SUBSET ArgKeys : Cardinality(T) <= MaxArgs}} \cup EchoMaps

CallNames == ToolNames \cup {"reboot-ec2-instance"}

ToolInit ==
    /\ pc = "Idle"
    /\ cancelled = FALSE
    /\ scanner = "open"
    /\ line = EmptyLine
    /\ input = <<>>
    /\ nread = 0
    /\ response = NilMessage
    /\ out = <<>>
    /\ ret = "none"
    /\ calls = <<>>
    /\ log = <<>>
    /\ registry = NewServer
    /\ req \in {[name |-> n, arguments |-> a, collab |-> c, now |-> t] :
                    n \in CallNames, a \in {ObjectArgs(m) : m \in ArgMaps} \cup {NotAMap}, c \in CollabOutcomes, t \in Times}
    /\ res = NoOutcome
    /\ ec2 = <<>>
    /\ clock = 1
    /\ reads = <<>>

\* toolHandler.CallTool(ctx, name, arguments), as TestToolHandler_CallTool calls it
\* (arguments that are not a map stand for the nil map here).
CallToolStep ==
    /\ ~res.done
    /\ LET o == CallTool(req.name, req.arguments.m, req.collab, req.now)
       IN  /\ res' = [done |-> TRUE, via |-> "CallTool", reg |-> registry, result |-> o.result, err |-> o.err, calls |-> o.calls, resp |-> NilMessage]
           /\ calls' = calls \o o.calls
    /\ UNCHANGED <<pc, cancelled, scanner, line, input, nread, response, out, ret, log, registry, req, ec2, clock, reads>>

\* A tools/call request handed to the server's HandleMessage.
HandleStep ==
    /\ ~res.done
    /\ LET h == HandleMessage(registry, RequestLine("1", "tools/call", req.name, req.arguments), req.collab, req.now)
       IN  /\ res' = [done |-> TRUE, via |-> "HandleMessage", reg |-> registry, result |-> NilResult, err |-> NilError, calls |-> h.calls, resp |-> h.resp]
           /\ calls' = calls \o h.calls
    /\ UNCHANGED <<pc, cancelled, scanner, line, input, nread, response, out, ret, log, registry, req, ec2, clock, reads>>

\* client.CallToolWithError(name, arguments) against the server or the tool-less test server.
ClientStep ==
    /\ ~res.done
    /\ \E reg \in {NewServer, TestServer} :
          LET o == CallToolWithError(reg, req.name, req.arguments, req.collab, req.now)
          IN  /\ res' = [done |-> TRUE, via |-> "Client", reg |-> reg, result |-> o.result, err |-> o.err, calls |-> o.calls, resp |-> NilMessage]
              /\ calls' = calls \o o.calls
    /\ UNCHANGED <<pc, cancelled, scanner, line, input, nread, response, out, ret, log, registry, req, ec2, clock, reads>>

ToolNext == CallToolStep \/ HandleStep \/ ClientStep

ToolSpec == ToolInit /\ [][ToolNext]_vars

----------------------------------------------------------------------------
(* A resources/read request, and the reads of one behaviour *)

\* Whether the mcp-go server matches a URI to the template: it does for one
\* non-empty segment after the prefix and does not without the prefix; for an
\* empty segment or further segments the library decides, either way.
LibraryMatch(uri) ==
    IF ~HasPrefix(uri, DetailPrefix) THEN {FALSE}
    ELSE LET id == TrimPrefix(uri, DetailPrefix)
         IN  IF id # <<>> /\ \A i \in 1..Len(id) : id[i] # "/" THEN {TRUE} ELSE {TRUE, FALSE}

\* server.MCPServer.HandleMessage (mcp-go) on a resources/read request: the
\* literal resources first, then the templates, else "resource not found".
HandleReadMessage(reg, id, uri, matched, fleet, apiFails, now) ==
    LET wrap(o) == IF ~o.err.nil
                   THEN [resp |-> JSONRPCError(id, o.err.msg), calls |-> o.calls]
                   ELSE [resp |-> JSONRPCResponse(id, [nil |-> FALSE, Contents |-> o.contents]), calls |-> o.calls]
    IN  IF uri \in DOMAIN reg.resources
        THEN wrap(listClosure(uri, fleet, apiFails, now))
        ELSE IF Len(reg.templates) > 0 /\ matched
        THEN wrap(templateClosure(uri, fleet, apiFails, now))
        ELSE [resp |-> JSONRPCError(id, <<"resource not found">>), calls |-> <<>>]

\* How many resource reads one behaviour makes at most.
MaxReads == 2

\* The URIs asked for: the list, an instance (which exists unless the account
\* is empty), the same id with its digit percent-encoded, two segments, an
\* empty segment, a double slash, another scheme.
ReadURIs ==
    {ListURI, DetailPrefix \o <<"i-", "1">>, DetailPrefix \o <<"i-", "%31">>,
     DetailPrefix \o <<"a", "/", "b">>, DetailPrefix, DetailPrefix \o <<"/", "b">>, <<"aws://s3/buckets">>}

\* The reads of one behaviour are made by one caller: code holding the
\* ResourceHandler, or the server handling resources/read requests.
ResInit ==
    /\ pc \in {"Handler", "Server"}
    /\ cancelled = FALSE
    /\ scanner = "open"
    /\ line = EmptyLine
    /\ input = <<>>
    /\ nread = 0
    /\ response = NilMessage
    /\ out = <<>>
    /\ ret = "none"
    /\ calls = <<>>
    /\ log = <<>>
    /\ registry = NewServer
    /\ req = NoRequest
    /\ res = NoOutcome
    /\ ec2 \in {[i \in 1..n |-> EC2Instance(i)] : n \in 0..MaxInstances}
    /\ clock = 1
    /\ reads = <<>>

\* resourceHandler.ReadResource(ctx, uri), called directly.
ReadStep ==
    /\ pc = "Handler"
    /\ Len(reads) < MaxReads
    /\ \E uri \in ReadURIs, apiFails \in BOOLEAN :
          LET o == ReadResource(uri, ec2, apiFails, clock)
          IN  /\ reads' = Append(reads, [via |-> "ReadResource", uri |-> uri, at |-> clock, apiFails |-> apiFails,
                                         result |-> o.result, err |-> o.err, calls |-> o.calls])
              /\ calls' = calls \o o.calls
    /\ UNCHANGED <<pc, cancelled, scanner, line, input, nread, response, out, ret, log, registry, req, res, ec2, clock>>

\* A resources/read request handed to the server's HandleMessage.
ServeReadStep ==
    /\ pc = "Server"
    /\ Len(reads) < MaxReads
    /\ \E uri \in ReadURIs, apiFails \in BOOLEAN :
       \E matched \in LibraryMatch(uri) :
          LET h == HandleReadMessage(registry, "2", uri, matched, ec2, apiFails, clock)
          IN  /\ reads' = Append(reads, [via |-> "HandleMessage", uri |-> uri, at |-> clock, apiFails |-> apiFails,
                                         result |-> IF h.resp.type = "JSONRPCResponse" THEN h.resp.result ELSE NilReadResult,
                                         err |-> IF h.resp.type = "JSONRPCError" THEN Errorf(h.resp.error) ELSE NilError,
                                         calls |-> h.calls])
              /\ calls' = calls \o h.calls
    /\ UNCHANGED <<pc, cancelled, scanner, line, input, nread, response, out, ret, log, registry, req, res, ec2, clock>>

\* A second passes.
Tick ==
    /\ pc \in {"Handler", "Server"}
    /\ clock < MaxReads
    /\ clock' = clock + 1
    /\ UNCHANGED <<pc, cancelled, scanner, line, input, nread, response, out, ret, calls, log, registry, req, res, ec2, reads>>

ResNext == ReadStep \/ ServeReadStep \/ Tick

ResSpec == ResInit /\ [][ResNext]_vars

----------------------------------------------------------------------------
(* formatInstancesForAI on any list of resources *)

\* How many resources the list given to formatInstancesForAI has at most.
MaxList == 3

\* What Details["instanceType"] of a resource can be: a string, a value that
\* is not a string, or nothing.
TypeValues == {Str(<<"t2.micro">>), Str(<<"t3.small">>), Num(<<"2">>), Null}

\* A types.AWSResource, the k-th of its list.
AWSResource(k, state, type, named) ==
    [ID |-> <<"i-", ToString(k)>>, Type |-> <<"ec2-instance">>, Region |-> Region, State |-> state,
     Tags |-> IF named THEN [Name |-> <<"web">>] ELSE [x \in {} |-> <<>>],
     Details |-> IF type = Null THEN EmptyMap ELSE [instanceType |-> type],
     LastSeen |-> 1]

ResourceLists ==
    UNION {{[k \in 1..n |-> AWSResource(k, f[k].state, f[k].type, f[k].named)] :
                f \in [1..n -> [state : {<<"running">>, <<"stopped">>}, type : TypeValues, named : BOOLEAN]]} :
           n \in 0..MaxList}

SummaryInit ==
    /\ pc = "Format"
    /\ cancelled = FALSE
    /\ scanner = "open"
    /\ line = EmptyLine
    /\ input = <<>>
    /\ nread = 0
    /\ response = NilMessage
    /\ out = <<>>
    /\ ret = "none"
    /\ calls = <<>>
    /\ log = <<>>
    /\ registry = NewServer
    /\ req \in {[instances |-> l] : l \in ResourceLists}
    /\ res = NoOutcome
    /\ ec2 = <<>>
    /\ clock = 1
    /\ reads = <<>>

\* h.formatInstancesForAI(instances)
FormatStep ==
    /\ pc = "Format"
    /\ pc' = "Formatted"
    /\ res' = [done |-> TRUE, via |-> "formatInstancesForAI", summary |-> formatInstancesForAI(req.instances)]
    /\ UNCHANGED <<cancelled, scanner, line, input, nread, response, out, ret, calls, log, registry, req, ec2, clock, reads>>

SummaryNext == FormatStep

SummarySpec == SummaryInit /\ [][SummaryNext]_vars

----------------------------------------------------------------------------
(* createSuccessResponse on any data map, beside the tool calls *)

\* The keys a data map can have: those of the base fields and those the tool
\* handlers use.
DataKeys == {"success", "message", "timestamp", "instanceId", "state", "instanceType", "action"}

DataValues == {Bool(FALSE), Str(<<"i-new">>)}

DataMaps == UNION {[S -> DataValues] : S \in SUBSET DataKeys}

DataInit ==
    /\ pc = "Data"
    /\ cancelled = FALSE
    /\ scanner = "open"
    /\ line = EmptyLine
    /\ input = <<>>
    /\ nread = 0
    /\ response = NilMessage
    /\ out = <<>>
    /\ ret = "none"
    /\ calls = <<>>
    /\ log = <<>>
    /\ registry = NewServer
    /\ req \in {[message |-> <<"EC2 instance created successfully">>, data |-> d, now |-> t] : d \in DataMaps, t \in Times}
    /\ res = NoOutcome
    /\ ec2 = <<>>
    /\ clock = 1
    /\ reads = <<>>

\* h.createSuccessResponse(message, data)
SuccessStep ==
    /\ pc = "Data"
    /\ pc' = "Responded"
    /\ res' = [NoOutcome EXCEPT !.done = TRUE, !.via = "createSuccessResponse",
                                !.result = createSuccessResponse(req.message, req.data, req.now)]
    /\ UNCHANGED <<cancelled, scanner, line, input, nread, response, out, ret, calls, log, registry, req, ec2, clock, reads>>

PayloadInit == ToolInit \/ DataInit

PayloadNext == (pc = "Idle" /\ ToolNext) \/ SuccessStep

PayloadSpec == PayloadInit /\ [][PayloadNext]_vars

----------------------------------------------------------------------------
(* The handlers called one way or the other: a tool call, or resource reads *)

CallInit == ToolInit \/ ResInit

CallNext == (pc = "Idle" /\ ToolNext) \/ (pc # "Idle" /\ ResNext)

CallSpec == CallInit /\ [][CallNext]_vars

----------------------------------------------------------------------------
(* Properties of the message loop, checked under Spec *)

\* What the loop itself did (its reads, dispatches and writes), in order.
Work == SelectSeq(log, LAMBDA e : e.ev # "cancel")

\* The write events of the loop, in order.
Writes == SelectSeq(log, LAMBDA e : e.ev = "write")

Dispatched(k) == \E i \in 1..Len(log) : log[i] = Event("dispatch", k)

Answered(k) == \E i \in 1..Len(log) : log[i] = Event("write", k)

\* The loop is done with line k: it went on to Scan again, or ended after it.
Processed(k) == k < nread \/ (k = nread /\ (pc \in {"Scan", "AfterLoop"} \/ (pc = "Stopped" /\ ret # "ctxErr")))

\* C1: responses are written in the order their request lines were read, each
\* carries the id of its own request, every request line the loop is done with
\* has its response, and the response to line k is written before anything
\* happens to line k+1 (no batching, no reordering).
C1_OrderedResponses ==
    /\ Len(Writes) = Len(out)
    /\ \A i \in 1..Len(out) : out[i].id = input[Writes[i].k].id
    /\ \A i, j \in 1..Len(Writes) : i < j => Writes[i].k < Writes[j].k
    /\ \A p, q \in 1..Len(log) : (p < q /\ log[q].ev = "write") => log[p].k <= log[q].k
    /\ \A k \in 1..nread : (input[k].kind = "request" /\ Processed(k)) => Answered(k)

\* Scenario D: two requests with ids 1 and 2, answered in that order.
C1_Witness ==
    /\ ~cancelled
    /\ Len(input) >= 2 /\ input[1].kind = "request" /\ input[2].kind = "request"
    /\ Len(out) = 2 /\ out[1].id = "1" /\ out[2].id = "2"

\* C2: when the cancellation signal is set as a line is about to be processed,
\* the line is neither dispatched nor answered, the loop stops and Start
\* returns ctx.Err(); ctx.Err() is returned in no other way.
C2_CancelLeavesLine ==
    /\ [][(pc = "Select" /\ cancelled) => (pc' = "Stopped" /\ ret' = "ctxErr" /\ out' = out /\ calls' = calls /\ log' = log)]_vars
    /\ [](ret = "ctxErr" => (pc = "Stopped" /\ cancelled /\ nread > 0 /\ ~Dispatched(nread) /\ ~Answered(nread)))

\* A request line was pending when the signal was seen, and it got no response.
C2_Witness ==
    /\ pc = "Stopped" /\ ret = "ctxErr"
    /\ line.kind = "request"
    /\ out = <<>>

C4_Original ==
    \A k \in 1..nread : (Dispatched(k) /\ Processed(k)) => Cardinality({i \in 1..Len(log) : log[i] = Event("write", k)}) = 1

\* C4 as amended: a dispatched line has at most one response line; it has
\* exactly one unless HandleMessage returned no response for it (a
\* notification); and no dispatch outcome makes Start return: the steps that
\* dispatch and write always lead back to Scan.
C4_AtMostOneResponse ==
    /\ [](\A k \in 1..nread : Cardinality({i \in 1..Len(log) : log[i] = Event("write", k)}) <= 1)
    /\ [](\A k \in 1..nread : (Dispatched(k) /\ Processed(k) /\ input[k].kind # "notification") => Answered(k))
    /\ [](\A k \in 1..nread : Answered(k) => Dispatched(k))
    /\ [][(pc \in {"Dispatching", "Writing"} /\ pc' # pc) => (pc' \in {"Writing", "Scan"} /\ ret' = "none")]_vars

\* A notification was dispatched and the loop went on without writing.
C4_Witness ==
    /\ pc = "Scan" /\ nread = 2
    /\ input[1].kind = "notification" /\ Dispatched(1) /\ ~Answered(1)
    /\ input[2].kind = "request" /\ Answered(2)

\* C5: an empty line is skipped: no dispatch, nothing written, and the loop
\* goes on to read the next line.
C5_EmptyLineSkipped ==
    /\ [][(pc = "Select" /\ ~cancelled /\ line = EmptyLine /\ pc' # pc) =>
            (pc' = "Scan" /\ out' = out /\ calls' = calls /\ log' = log /\ ret' = ret /\ response' = response)]_vars
    /\ [](\A k \in 1..nread : input[k] = EmptyLine => (~Dispatched(k) /\ ~Answered(k)))

\* An empty line was read and skipped, and the line after it was answered.
C5_Witness ==
    /\ nread = 2 /\ input[1].kind = "empty" /\ ~Dispatched(1)
    /\ Answered(2)

\* C6: at the end of input Start stops and returns nil when the read did not
\* fault and the fault when it did; nothing is dispatched or written after
\* the end of input.
C6_EndOfInput ==
    /\ []((pc = "Stopped" /\ scanner = "eof") => ret = "nil")
    /\ []((pc = "Stopped" /\ scanner = "fault") => ret = "readErr")
    /\ [](scanner # "open" => pc \in {"AfterLoop", "Stopped"})
    /\ [][scanner # "open" => (Work' = Work /\ out' = out /\ calls' = calls /\ nread' = nread)]_vars

\* The read faulted after a line was answered, and Start returned the fault.
C6_Witness ==
    /\ pc = "Stopped" /\ scanner = "fault" /\ ret = "readErr"
    /\ Len(out) = 1

----------------------------------------------------------------------------
(* Properties of one tool call, checked under ToolSpec *)

\* The parameter is absent from the map or is the empty string.
Missing(m, p) == p \notin DOMAIN m \/ m[p] = Str(<<>>)

\* The parameter is not supplied as a non-empty string.
Unusable(m, p) == p \notin DOMAIN m \/ m[p].t # "string" \/ m[p].s = <<>>

\* The first required parameter, in declaration order, that is unusable.
FirstUnusable(name, m) ==
    LET r == Required(name)
    IN  r[CHOOSE i \in 1..Len(r) : Unusable(m, r[i]) /\ \A j \in 1..(i - 1) : ~Unusable(m, r[j])]

\* A result with exactly one text content whose payload says success=false and contains msg.
FailurePayload(result, msg) ==
    /\ ~result.nil
    /\ Len(result.Content) = 1
    /\ result.Content[1].Type = "text"
    /\ TextSaysSuccess(result.Content[1].Text, FALSE)
    /\ TextContains(result.Content[1].Text, msg)

Direct == res.done /\ res.via = "CallTool"

Served == res.done /\ res.via = "HandleMessage"

\* C7 as claimed: for each tool and each of its required parameters, a call in
\* which that parameter is absent or empty returns a non-error result whose
\* one text content says success=false and "<that parameter> is required",
\* and invokes no collaborator operation.
C7_Original ==
    (Direct /\ req.name \in ToolNames) =>
        \A i \in 1..Len(Required(req.name)) :
            Missing(req.arguments.m, Required(req.name)[i]) =>
                /\ res.err.nil
                /\ FailurePayload(res.result, <<Required(req.name)[i], " is required">>)
                /\ res.calls = <<>> /\ calls = <<>>

\* C7 as amended: such a call returns a non-error result whose one text
\* content says success=false and "<q> is required", q being the first
\* required parameter, in declaration order, that is not supplied as a
\* non-empty string (the parameter itself when those before it are fine);
\* no collaborator operation is invoked.
C7_FirstMissingReported ==
    (Direct /\ req.name \in ToolNames) =>
        \A i \in 1..Len(Required(req.name)) :
            Missing(req.arguments.m, Required(req.name)[i]) =>
                /\ res.err.nil
                /\ FailurePayload(res.result, <<FirstUnusable(req.name, req.arguments.m), " is required">>)
                /\ ((\A j \in 1..(i - 1) : ~Unusable(req.arguments.m, Required(req.name)[j]))
                        => FirstUnusable(req.name, req.arguments.m) = Required(req.name)[i])
                /\ res.calls = <<>> /\ calls = <<>>

\* create-ec2-instance with imageId given and instanceType left out.
C7_Witness ==
    /\ Direct /\ req.name = "create-ec2-instance"
    /\ ~Unusable(req.arguments.m, "imageId") /\ "instanceType" \notin DOMAIN req.arguments.m
    /\ FailurePayload(res.result, <<"instanceType", " is required">>)

\* C8 as claimed: a tools/call for a registered tool with a required argument
\* missing (empty mapping, key lacking, or no mapping at all) yields a success
\* envelope with the Failure "<that argument> is required", never a protocol error.
C8_Original ==
    (Served /\ req.name \in ToolNames
        /\ \E i \in 1..Len(Required(req.name)) : Required(req.name)[i] \notin DOMAIN req.arguments.m) =>
            /\ res.resp.type = "JSONRPCResponse"
            /\ \E i \in 1..Len(Required(req.name)) :
                    /\ Required(req.name)[i] \notin DOMAIN req.arguments.m
                    /\ FailurePayload(res.resp.result, <<Required(req.name)[i], " is required">>)

\* C8 as amended: when the arguments are a mapping that lacks a required key,
\* the response is a success envelope with the Failure "<q> is required", q
\* the first required parameter not supplied as a non-empty string, and no
\* collaborator operation is invoked; when the arguments are not a mapping at
\* all the tool's closure fails with "invalid arguments format" and the
\* response is a protocol error.
C8_MissingArgumentEnvelope ==
    (Served /\ req.name \in ToolNames) =>
        /\ (req.arguments.isMap /\ \E i \in 1..Len(Required(req.name)) : Required(req.name)[i] \notin DOMAIN req.arguments.m) =>
                /\ res.resp.type = "JSONRPCResponse"
                /\ res.resp.id = "1"
                /\ FailurePayload(res.resp.result, <<FirstUnusable(req.name, req.arguments.m), " is required">>)
                /\ res.calls = <<>>
        /\ ~req.arguments.isMap =>
                /\ res.resp.type = "JSONRPCError"
                /\ res.resp.error = <<"invalid arguments format">>
                /\ res.calls = <<>>

\* Scenario B: start-ec2-instance with arguments {}.
C8_Witness ==
    /\ Served /\ req.name = "start-ec2-instance" /\ req.arguments = ObjectArgs(EmptyMap)
    /\ res.resp.type = "JSONRPCResponse"
    /\ FailurePayload(res.resp.result, <<"instanceId", " is required">>)

\* C9 as claimed: an unknown tool name yields a successful outcome wrapping
\* the Failure "unknown tool: <name>", never an error.
C9_Original ==
    (Direct /\ req.name \notin ToolNames) =>
        /\ res.err.nil
        /\ FailurePayload(res.result, <<"unknown tool", ": ", req.name>>)

\* C9 as amended: an unknown tool name yields an error outcome: CallTool
\* returns no result and the error "unknown tool: <name>".
C9_UnknownToolIsError ==
    (Direct /\ req.name \notin ToolNames) =>
        /\ res.result = NilResult
        /\ res.err = Errorf(<<"unknown tool", ": ", req.name>>)

C9_Witness ==
    /\ Direct /\ req.name = "reboot-ec2-instance"
    /\ res.err.msg = <<"unknown tool", ": ", "reboot-ec2-instance">>

\* C10: calling a tool name that is not known or registered is an error with
\* no result: CallTool returns a nil result and an error containing "unknown
\* tool"; the test client returns a nil result and a non-nil error; no
\* collaborator operation is invoked either way.
C10_UnknownToolNoResult ==
    /\ (Direct /\ req.name \notin ToolNames) =>
            (res.result.nil /\ ~res.err.nil /\ Contains(res.err.msg, <<"unknown tool">>) /\ res.calls = <<>> /\ calls = <<>>)
    /\ (res.done /\ res.via = "Client" /\ req.name \notin DOMAIN res.reg.tools) =>
            (res.result.nil /\ ~res.err.nil /\ res.calls = <<>> /\ calls = <<>>)

\* TestMCPTestClientErrorHandling: a tool-less server asked for a tool.
C10_Witness ==
    /\ res.done /\ res.via = "Client" /\ res.reg = TestServer
    /\ req.arguments = ObjectArgs(EmptyMap)
    /\ res.result.nil /\ Contains(res.err.msg, <<"not found">>)

----------------------------------------------------------------------------
(* Properties of the resource reads, checked under ResSpec *)

\* The id a URI carries after "aws://ec2/instances/".
IdOf(uri) == TrimPrefix(uri, DetailPrefix)

\* The read asks for the list, or for an instance the account has.
Resolves(r) == r.uri = ListURI \/ (HasPrefix(r.uri, DetailPrefix) /\ \E k \in 1..Len(ec2) : ec2[k].InstanceId = IdOf(r.uri))

HasSlash(id) == \E i \in 1..Len(id) : id[i] = "/"

\* The id has an empty segment: it is empty, or starts or ends with a slash,
\* or has two slashes in a row.
HasEmptySegment(id) ==
    \/ id = <<>>
    \/ id[1] = "/" \/ id[Len(id)] = "/"
    \/ \E i \in 1..(Len(id) - 1) : id[i] = "/" /\ id[i + 1] = "/"

Gets(invoked) == {i \in 1..Len(invoked) : invoked[i].op = "GetEC2Instance"}

\* C11: a read whose collaborator call fails (the API fails, or the instance
\* is not there), or whose URI names no resource, ends in an error and no
\* contents, both from the handler and as the server's response; it is never
\* a result that carries the failure.
C11_ResourceFailureIsError ==
    \A i \in 1..Len(reads) :
        (reads[i].apiFails \/ ~Resolves(reads[i])) =>
            (~reads[i].err.nil /\ reads[i].result.nil /\ reads[i].result.Contents = <<>>)

\* Scenario C: the server is asked for an instance the account does not have;
\* the get was made and the response is an error.
C11_Witness ==
    \E i \in 1..Len(reads) :
        /\ reads[i].via = "HandleMessage" /\ reads[i].uri = DetailPrefix \o <<"i-", "1">>
        /\ ec2 = <<>> /\ ~reads[i].apiFails
        /\ Gets(reads[i].calls) # {} /\ ~reads[i].err.nil
        /\ Contains(reads[i].err.msg, <<"failed to get EC2 instance", ": ">>)

\* C13: a read of the literal URI "aws://ec2/instances" goes to the list
\* handler: the collaborator's list is the only call made, get is not
\* called, no instance id is bound, and a result names the literal URI.
C13_LiteralSelectsList ==
    \A i \in 1..Len(reads) :
        reads[i].uri = ListURI =>
            /\ reads[i].calls = <<[op |-> "ListEC2Instances", params |-> [InstanceID |-> <<>>]]>>
            /\ ~reads[i].result.nil => reads[i].result.Contents[1].URI = ListURI

\* The literal URI was read through the handler and the list came back.
C13_Witness ==
    \E i \in 1..Len(reads) :
        /\ reads[i].via = "ReadResource" /\ reads[i].uri = ListURI
        /\ ~reads[i].result.nil /\ Len(ec2) > 0

\* C14, as claimed: ReadResource never resolves a URI with more segments than
\* the template to the instance handler: such a read makes no collaborator
\* call and fails as an unknown resource.
C14_Claim ==
    \A i \in 1..Len(reads) :
        (reads[i].via = "ReadResource" /\ HasPrefix(reads[i].uri, DetailPrefix) /\ HasSlash(IdOf(reads[i].uri))) =>
            (reads[i].calls = <<>> /\ Contains(reads[i].err.msg, <<"unknown resource URI">>))

\* C15, as claimed: a URI with an empty segment after the prefix is no match
\* for ReadResource: the read fails and the collaborator's get is not called
\* for it, so never with an empty instance id.
C15_Claim ==
    \A i \in 1..Len(reads) :
        (reads[i].via = "ReadResource" /\ HasPrefix(reads[i].uri, DetailPrefix) /\ HasEmptySegment(IdOf(reads[i].uri))) =>
            (~reads[i].err.nil /\ Gets(reads[i].calls) = {})

\* C17, as claimed: two successful reads of the same URI, the instances
\* being the same, return the same result.
C17_Claim ==
    \A i, j \in 1..Len(reads) :
        (reads[i].uri = reads[j].uri /\ reads[i].via = reads[j].via /\ reads[i].err.nil /\ reads[j].err.nil) =>
            reads[i].result = reads[j].result

\* C18: a successful read of the list returns one content item, for the
\* literal URI and of type application/json, whose text gives total_instances
\* as the number of instances and lists that many.
C18_ListPayload ==
    \A i \in 1..Len(reads) :
        (reads[i].uri = ListURI /\ ~reads[i].apiFails) =>
            /\ reads[i].err.nil /\ ~reads[i].result.nil
            /\ Len(reads[i].result.Contents) = 1
            /\ reads[i].result.Contents[1].URI = ListURI
            /\ reads[i].result.Contents[1].MIMEType = "application/json"
            /\ Member(reads[i].result.Contents[1].Text, "total_instances") = Int(Len(ec2))
            /\ Member(reads[i].result.Contents[1].Text, "instances").t = "list"
            /\ Len(Member(reads[i].result.Contents[1].Text, "instances").s) = Len(ec2)

\* The list was read with two instances in the account.
C18_Witness ==
    \E i \in 1..Len(reads) :
        /\ reads[i].uri = ListURI /\ ~reads[i].apiFails /\ Len(ec2) = 2
        /\ Member(reads[i].result.Contents[1].Text, "total_instances") = Int(2)

----------------------------------------------------------------------------
(* Cancellation while a request is in flight, checked under Spec *)

\* The signal was raised while line k was in flight: after its dispatch began
\* and before its response was written.
CancelledInFlight(k) ==
    \E p, q \in 1..Len(log) :
        /\ p < q /\ log[p] = Event("dispatch", k) /\ log[q] = Event("cancel", k)
        /\ \A w \in 1..(q - 1) : log[w] # Event("write", k)

\* Line k got a response from HandleMessage (it is not a notification).
HasResponse(k) == input[k].kind \in {"request", "malformed"}

\* C20: when the signal is raised while line k is in flight, the loop does
\* not stop there: once it is done with line k the response to k is written,
\* the loop reads at most one more line, and Start returns ctx.Err() only with
\* that next line read and left undispatched and unanswered.
C20_InFlightNotPreempted ==
    \A k \in 1..nread :
        CancelledInFlight(k) =>
            /\ nread <= k + 1
            /\ (nread = k /\ pc \in {"Dispatching", "Writing"}) => ret = "none"
            /\ (Processed(k) /\ HasResponse(k)) => Answered(k)
            /\ ret = "ctxErr" => (nread = k + 1 /\ ~Dispatched(k + 1) /\ ~Answered(k + 1) /\ (HasResponse(k) => Answered(k)))

\* The signal came while request 1 was in flight; its response was written,
\* a second request was read and Start returned ctx.Err() without answering it.
C20_Witness ==
    /\ CancelledInFlight(1) /\ input[1].kind = "request" /\ Answered(1)
    /\ nread = 2 /\ input[2].kind = "request" /\ ret = "ctxErr" /\ Len(out) = 1

----------------------------------------------------------------------------
(* More properties of one tool call, checked under ToolSpec *)

\* Every required parameter of the tool is supplied as a non-empty string.
Valid(name, m) == \A i \in 1..Len(Required(name)) : ~Unusable(m, Required(name)[i])

\* The <action> of a tool's messages.
Verb(name) ==
    CASE name = "create-ec2-instance" -> "create"
      [] name = "start-ec2-instance" -> "start"
      [] name = "stop-ec2-instance" -> "stop"
      [] name = "terminate-ec2-instance" -> "terminate"

\* The text of the message "failed to <action> EC2 instance: <underlying error>".
FailedTo(name, err) == <<"failed to ", Verb(name), " EC2 instance", ": ">> \o err

\* C12: for each tool, when validation passes and the collaborator call
\* fails, CallTool returns no error and a result with one text content whose
\* payload says success=false and whose error is "failed to <action> EC2
\* instance: " followed by the collaborator's error text, unchanged; through
\* the server the same payload travels in a success envelope.
C12_CollaboratorFailureIsPayload ==
    /\ (Direct /\ req.name \in ToolNames /\ Valid(req.name, req.arguments.m) /\ req.collab.fails) =>
            /\ res.err.nil
            /\ FailurePayload(res.result, FailedTo(req.name, req.collab.err))
            /\ Member(res.result.Content[1].Text, "error") = Str(FailedTo(req.name, req.collab.err))
            /\ Len(res.calls) = 1
    /\ (Served /\ req.name \in ToolNames /\ req.arguments.isMap /\ Valid(req.name, req.arguments.m) /\ req.collab.fails) =>
            /\ res.resp.type = "JSONRPCResponse"
            /\ FailurePayload(res.resp.result, FailedTo(req.name, req.collab.err))

\* terminate-ec2-instance with an instance id, and the collaborator refusing.
C12_Witness ==
    /\ Direct /\ req.name = "terminate-ec2-instance" /\ req.arguments.m = [instanceId |-> Str(<<"x-123">>)]
    /\ req.collab.fails
    /\ TextContains(res.result.Content[1].Text, <<"failed to ", "terminate", " EC2 instance", ": ", "api error", " UnauthorizedOperation">>)

\* The optional parameters of create-ec2-instance.
OptionalKeys == {"keyName", "securityGroupId", "subnetId", "name"}

\* The argument map without its optional parameters that are not strings.
WithoutNonStrings(m) == [k \in {j \in DOMAIN m : j \notin OptionalKeys \/ m[j].t = "string"} |-> m[k]]

\* C16: create-ec2-instance with both required parameters given as non-empty
\* strings never fails validation over an optional parameter that is present
\* but not a string: the collaborator's create is invoked once, with that
\* field empty, and the outcome is the one of the call without the parameter.
C16_OptionalNonStringIgnored ==
    (Direct /\ req.name = "create-ec2-instance" /\ Valid(req.name, req.arguments.m)) =>
        /\ Len(res.calls) = 1 /\ res.calls[1].op = "CreateEC2Instance"
        /\ \A k \in OptionalKeys :
              (k \in DOMAIN req.arguments.m /\ req.arguments.m[k].t # "string") =>
                  (CASE k = "keyName" -> res.calls[1].params.KeyName
                     [] k = "securityGroupId" -> res.calls[1].params.SecurityGroupID
                     [] k = "subnetId" -> res.calls[1].params.SubnetID
                     [] k = "name" -> res.calls[1].params.Name) = <<>>
        /\ ~TextContains(res.result.Content[1].Text, <<" is required">>)
        /\ Outcome(res.result, res.err, res.calls)
              = CallTool(req.name, WithoutNonStrings(req.arguments.m), req.collab, req.now)

\* create-ec2-instance with a number for keyName: create was invoked with no key name.
C16_Witness ==
    /\ Direct /\ req.name = "create-ec2-instance" /\ Valid(req.name, req.arguments.m)
    /\ "keyName" \in DOMAIN req.arguments.m /\ req.arguments.m["keyName"].t = "number"
    /\ res.calls[1].params.KeyName = <<>> /\ ~req.collab.fails
    /\ TextSaysSuccess(res.result.Content[1].Text, TRUE)

\* Some argument of the call, or the collaborator's error, holds the words.
InputHolds(pat) ==
    \/ \E k \in DOMAIN req.arguments.m : req.arguments.m[k].t = "string" /\ Contains(req.arguments.m[k].s, pat)
    \/ Contains(req.collab.err, pat)

\* C19 as claimed: with every required parameter a non-empty string, CallTool
\* returns a result with content and no error, and the payload never
\* contains "is required" or "unknown tool".
C19_Original ==
    (Direct /\ req.name \in ToolNames /\ Valid(req.name, req.arguments.m)) =>
        /\ ~res.result.nil /\ Len(res.result.Content) > 0 /\ res.err.nil
        /\ ~TextContains(res.result.Content[1].Text, <<" is required">>)
        /\ ~TextContains(res.result.Content[1].Text, <<"unknown tool">>)

\* C19 as amended: such a call returns a result with content and no error,
\* and its payload is never a validation failure: it says success=true, or
\* success=false with "failed to <action> EC2 instance: <underlying error>";
\* "is required" and "unknown tool" occur in it only where an argument of the
\* call or the collaborator's error holds those words.
C19_ValidArgumentsPass ==
    (Direct /\ req.name \in ToolNames /\ Valid(req.name, req.arguments.m)) =>
        /\ ~res.result.nil /\ Len(res.result.Content) > 0 /\ res.err.nil
        /\ Len(res.calls) = 1
        /\ IF req.collab.fails
           THEN Member(res.result.Content[1].Text, "error") = Str(FailedTo(req.name, req.collab.err))
           ELSE TextSaysSuccess(res.result.Content[1].Text, TRUE) /\ Member(res.result.Content[1].Text, "error") = Null
        /\ ~InputHolds(<<" is required">>) => ~TextContains(res.result.Content[1].Text, <<" is required">>)
        /\ ~InputHolds(<<"unknown tool">>) => ~TextContains(res.result.Content[1].Text, <<"unknown tool">>)

\* terminate-ec2-instance with an instance id and the collaborator refusing:
\* the test's case, validation passed and the payload carries the API error.
C19_Witness ==
    /\ Direct /\ req.name = "terminate-ec2-instance" /\ req.arguments.m = [instanceId |-> Str(<<"x-123">>)]
    /\ req.collab.fails /\ res.err.nil /\ Len(res.calls) = 1
    /\ ~TextContains(res.result.Content[1].Text, <<" is required">>)

----------------------------------------------------------------------------
(* One request at a time, checked under Spec *)

\* C21: at most one request is in flight: while a line is between its
\* dispatch and the write of its response it is the last line read, and no
\* later line is read or dispatched before the response to a dispatched line
\* (when it has one) is written; no line is dispatched twice.
C21_OneInFlight ==
    /\ pc \in {"Dispatching", "Writing"} => (nread > 0 /\ line = input[nread] /\ Dispatched(nread) /\ ~Answered(nread))
    /\ \A p, q \in 1..Len(log) :
          (p < q /\ log[p].ev = "dispatch" /\ log[q].ev \in {"read", "dispatch"}) =>
              /\ log[q].k > log[p].k
              /\ HasResponse(log[p].k) => \E w \in (p + 1)..(q - 1) : log[w] = Event("write", log[p].k)

\* Two requests: the first was answered before the second was read, and the
\* second is now in flight.
C21_Witness ==
    /\ nread = 2 /\ pc = "Writing" /\ input[1].kind = "request" /\ input[2].kind = "request"
    /\ Answered(1) /\ Dispatched(2) /\ Len(out) = 1

----------------------------------------------------------------------------
(* Result and error, checked under CallSpec *)

\* Exactly one of the two is there.
ExactlyOne(result, err) == result.nil # err.nil

\* C22: every outcome of CallTool, of ReadResource and of the test client's
\* CallToolWithError has exactly one of result and error: a result comes with
\* a nil error and an error with a nil result.
C22_ResultXorError ==
    /\ (res.done /\ res.via \in {"CallTool", "Client"}) => ExactlyOne(res.result, res.err)
    /\ \A i \in 1..Len(reads) : reads[i].via = "ReadResource" => ExactlyOne(reads[i].result, reads[i].err)

\* ReadResource returned a result with no error, then an error with no result.
C22_Witness ==
    /\ Len(reads) = 2 /\ reads[1].via = "ReadResource" /\ reads[2].via = "ReadResource"
    /\ ~reads[1].result.nil /\ reads[1].err.nil /\ reads[2].result.nil /\ ~reads[2].err.nil

----------------------------------------------------------------------------
(* The payloads of the tools, checked under ToolSpec *)

\* The member is a string that is not empty.
NonEmptyString(text, key) == Member(text, key).t = "string" /\ Member(text, key).s # <<>>

\* C23: a tool's result has exactly one text content item; its payload is a
\* Failure exactly when validation or the collaborator failed, and then it
\* carries success=false, a non-empty error message and the timestamp of the
\* call; otherwise it is a Success with success=true, a non-empty message
\* and the timestamp.
C23_PayloadShape ==
    (Direct /\ req.name \in ToolNames) =>
        /\ ~res.result.nil /\ Len(res.result.Content) = 1 /\ res.result.Content[1].Type = "text"
        /\ LET text == res.result.Content[1].Text
           IN  /\ Member(text, "timestamp") = Str(req.now) /\ req.now # <<>>
               /\ IF ~Valid(req.name, req.arguments.m) \/ req.collab.fails
                  THEN Member(text, "success") = Bool(FALSE) /\ NonEmptyString(text, "error")
                  ELSE Member(text, "success") = Bool(TRUE) /\ NonEmptyString(text, "message")

\* create-ec2-instance without imageId (the test's case): a Failure with its timestamp.
C23_Witness ==
    /\ Direct /\ req.name = "create-ec2-instance" /\ "imageId" \notin DOMAIN req.arguments.m
    /\ Member(res.result.Content[1].Text, "success") = Bool(FALSE)
    /\ Member(res.result.Content[1].Text, "error") = Str(<<"imageId", " is required">>)
    /\ Member(res.result.Content[1].Text, "timestamp") = Str(req.now)

----------------------------------------------------------------------------
(* The registries, checked under Spec *)

\* C24: the registrations are those NewServer made (one literal resource,
\* one template, four tools under four different names) in every state of
\* the loop, and no step of the loop, handlers included, changes them.
C24_RegistriesFixed ==
    /\ [](/\ registry = NewServer
          /\ DOMAIN registry.tools = {"create-ec2-instance", "start-ec2-instance", "stop-ec2-instance", "terminate-ec2-instance"}
          /\ Cardinality(DOMAIN registry.tools) = 4
          /\ DOMAIN registry.resources = {ListURI}
          /\ Len(registry.templates) = 1)
    /\ [][registry' = registry]_vars

\* Two lines were answered, a tool having called the collaborator, and the
\* registrations are as they were made.
C24_Witness ==
    /\ nread = 2 /\ Len(out) = 2 /\ Len(calls) > 0 /\ pc = "Stopped"
    /\ registry = NewServer /\ Cardinality(DOMAIN registry.tools) = 4

----------------------------------------------------------------------------
(* Termination, checked under LiveSpec *)

\* C25: with a finite input and handlers that return, Start eventually
\* returns, and once it has returned nothing more is read, dispatched or
\* written and what it returned stays.
C25_StartReturns ==
    /\ <>(pc = "Stopped" /\ ret # "none")
    /\ [][pc = "Stopped" => (pc' = "Stopped" /\ ret' = ret /\ out' = out /\ Work' = Work /\ calls' = calls)]_vars

\* Start returned nil after two answered requests and the end of input.
C25_Witness ==
    /\ pc = "Stopped" /\ ret = "nil" /\ scanner = "eof"
    /\ nread = 2 /\ Len(out) = 2 /\ input[1].kind = "request"

----------------------------------------------------------------------------
(* Where the signal is seen, checked under Spec *)

\* The signal was raised before the last line was read.
ReadWhileSet == \E p, q \in 1..Len(log) : p < q /\ log[p].ev = "cancel" /\ log[q] = Event("read", nread)

\* C26 as claimed: when the input ends Start returns nil or the read fault,
\* signal or no signal, and it returns ctx.Err() only if a line was read
\* while the signal was set.
C26_Original ==
    /\ (pc = "Stopped" /\ scanner # "open") => ret \in {"nil", "readErr"}
    /\ ret = "ctxErr" => ReadWhileSet

\* C26 as amended: when the input ends Start returns nil or the read fault,
\* signal or no signal; it returns ctx.Err() only from the check that follows
\* the read of a line, with the signal set at that check, whether the signal
\* came before that read returned or between the read and the check.
C26_SeenOnlyAtTheCheck ==
    /\ []((pc = "Stopped" /\ scanner # "open") => ret \in {"nil", "readErr"})
    /\ [][(ret' = "ctxErr" /\ ret # "ctxErr") => (pc = "Select" /\ cancelled /\ nread > 0 /\ scanner = "open")]_vars
    /\ [](ret = "ctxErr" => (\E p \in 1..Len(log) : log[p].ev = "cancel") /\ Work[Len(Work)] = Event("read", nread))
    /\ [][(cancelled /\ pc \in {"Scan", "AfterLoop"} /\ nread' = nread) => ret' # "ctxErr"]_vars

\* The signal was set, one line having been answered, the input then ended
\* and Start returned nil.
C26_Witness ==
    /\ pc = "Stopped" /\ cancelled /\ scanner = "eof" /\ ret = "nil"
    /\ nread = 1 /\ Answered(1) /\ log[Len(log)] = Event("cancel", 1)

----------------------------------------------------------------------------
(* Registered names and dispatched names, checked under ToolSpec *)

\* C27: every registered tool closure forwards to CallTool the name it is
\* registered under, the registered names are exactly the names CallTool
\* knows, and so no tools/call request ends in CallTool's "unknown tool"
\* error: an unregistered name is turned down by the server before that.
C27_UnknownBranchUnreachable ==
    /\ \A n \in DOMAIN registry.tools : registry.tools[n] = n
    /\ \A n \in CallNames : (n \in DOMAIN registry.tools) <=> CallTool(n, EmptyMap, req.collab, req.now).err.nil
    /\ Served => ~Contains(res.resp.error, <<"unknown tool">>)
    /\ (Served /\ req.name \notin DOMAIN registry.tools) => (res.resp.type = "JSONRPCError" /\ res.calls = <<>>)

\* The server was asked for a tool that is not registered and turned it down.
C27_Witness ==
    /\ Served /\ req.name = "reboot-ec2-instance" /\ req.arguments.isMap
    /\ res.resp.type = "JSONRPCError" /\ Contains(res.resp.error, <<"not found">>)

----------------------------------------------------------------------------
(* Required parameters of another type, and their order, checked under ToolSpec *)

\* The parameter is present in the map and is not a string.
NonString(m, p) == p \in DOMAIN m /\ m[p].t # "string"

\* The map without the parameter.
Without(m, p) == [k \in DOMAIN m \ {p} |-> m[k]]

\* C28 as claimed: a required parameter that is present but is not a string
\* gets the Failure "<that parameter> is required", and the collaborator is
\* not invoked.
C28_Original ==
    (Direct /\ req.name \in ToolNames) =>
        \A i \in 1..Len(Required(req.name)) :
            NonString(req.arguments.m, Required(req.name)[i]) =>
                /\ res.err.nil
                /\ FailurePayload(res.result, <<Required(req.name)[i], " is required">>)
                /\ res.calls = <<>>

\* C28 as amended: a required parameter that is present but is not a string
\* is treated like a missing one: the outcome is the outcome of the call
\* without it, a Failure "<q> is required" with q the first required
\* parameter, in the order the tool checks them, that is not a non-empty
\* string (the parameter itself when those before it are fine), and the
\* collaborator is not invoked.
C28_NonStringIsMissing ==
    (Direct /\ req.name \in ToolNames) =>
        \A i \in 1..Len(Required(req.name)) :
            NonString(req.arguments.m, Required(req.name)[i]) =>
                /\ res.err.nil
                /\ FailurePayload(res.result, <<FirstUnusable(req.name, req.arguments.m), " is required">>)
                /\ ((\A j \in 1..(i - 1) : ~Unusable(req.arguments.m, Required(req.name)[j]))
                        => FirstUnusable(req.name, req.arguments.m) = Required(req.name)[i])
                /\ res.calls = <<>>
                /\ Outcome(res.result, res.err, res.calls)
                      = CallTool(req.name, Without(req.arguments.m, Required(req.name)[i]), req.collab, req.now)

\* start-ec2-instance with a number for instanceId.
C28_Witness ==
    /\ Direct /\ req.name = "start-ec2-instance" /\ req.arguments.m = [instanceId |-> Num(<<"42">>)]
    /\ FailurePayload(res.result, <<"instanceId", " is required">>) /\ res.calls = <<>>

\* C29: create-ec2-instance checks imageId before instanceType and reports
\* the first failure only: when imageId is not a non-empty string the Failure
\* is "imageId is required", whatever instanceType is, and "instanceType is
\* required" is reported exactly when imageId is a non-empty string and
\* instanceType is not.
C29_ImageIdFirst ==
    (Direct /\ req.name = "create-ec2-instance") =>
        LET text == res.result.Content[1].Text
        IN  /\ ~res.result.nil /\ res.err.nil
            /\ Unusable(req.arguments.m, "imageId") =>
                  /\ Member(text, "error") = Str(<<"imageId", " is required">>)
                  /\ ~TextContains(text, <<"instanceType", " is required">>)
                  /\ res.calls = <<>>
            /\ TextContains(text, <<"instanceType", " is required">>) <=>
                  (~Unusable(req.arguments.m, "imageId") /\ Unusable(req.arguments.m, "instanceType"))

\* Both required parameters are missing and the Failure names imageId.
C29_Witness ==
    /\ Direct /\ req.name = "create-ec2-instance" /\ req.arguments.m = EmptyMap
    /\ Member(res.result.Content[1].Text, "error") = Str(<<"imageId", " is required">>)

----------------------------------------------------------------------------
(* The instance-detail read and its URI, checked under ResSpec *)

\* C30: a read that reaches the instance-detail handler passes the
\* collaborator the requested URI without "aws://ec2/instances/", as it
\* stands and not decoded, and when the get succeeds the one content item
\* returned has the requested URI.
C30_DetailKeepsURI ==
    \A i \in 1..Len(reads) :
        (HasPrefix(reads[i].uri, DetailPrefix) /\ reads[i].calls # <<>>) =>
            /\ reads[i].calls = <<[op |-> "GetEC2Instance", params |-> [InstanceID |-> IdOf(reads[i].uri)]]>>
            /\ DetailPrefix \o reads[i].calls[1].params.InstanceID = reads[i].uri
            /\ reads[i].err.nil =>
                  /\ Len(reads[i].result.Contents) = 1
                  /\ reads[i].result.Contents[1].URI = reads[i].uri

\* A successful read of aws://ec2/instances/i-1 by ReadResource, and a read of
\* the percent-encoded form that asked the collaborator for "i-%31".
C30_Witness ==
    /\ Len(reads) = 2
    /\ reads[1].via = "ReadResource" /\ reads[1].uri = DetailPrefix \o <<"i-", "1">> /\ reads[1].err.nil
    /\ reads[1].result.Contents[1].URI = DetailPrefix \o <<"i-", "1">>
    /\ reads[2].uri = DetailPrefix \o <<"i-", "%31">>
    /\ reads[2].calls = <<[op |-> "GetEC2Instance", params |-> [InstanceID |-> <<"i-", "%31">>]]>>

----------------------------------------------------------------------------
(* The instance-list summary, checked under SummarySpec *)

\* The number a count of the summary stands for.
CountOf(v) == CHOOSE k \in 0..Len(req.instances) : v = Int(k)

\* The sum of the counts of the first n members of a count map.
RECURSIVE SumCounts(_, _)
SumCounts(members, n) == IF n = 0 THEN 0 ELSE SumCounts(members, n - 1) + CountOf(members[n].value)

\* The instances of the input whose instanceType is a string.
Typed == {i \in 1..Len(req.instances) : AsString(MapGet(req.instances[i].Details, "instanceType")).ok}

\* C31: in the summary formatInstancesForAI builds from any list,
\* total_instances is the number of entries of instances, the counts of
\* summary_by_state sum to it, the counts of summary_by_type sum to the number
\* of instances whose instanceType is a string, which is at most
\* total_instances, and the entries of instances are those of the input, in
\* the input's order.
C31_SummaryConsistent ==
    (pc = "Formatted") =>
        LET s == res.summary
            n == Len(req.instances)
        IN  /\ s.total_instances = Int(n)
            /\ s.instances.t = "list" /\ Len(s.instances.s) = n
            /\ SumCounts(s.summary_by_state.s, Len(s.summary_by_state.s)) = n
            /\ SumCounts(s.summary_by_type.s, Len(s.summary_by_type.s)) = Cardinality(Typed)
            /\ SumCounts(s.summary_by_type.s, Len(s.summary_by_type.s)) <= n
            /\ \A i \in 1..n :
                  /\ Member(s.instances.s[i], "id") = Str(req.instances[i].ID)
                  /\ Member(s.instances.s[i], "state") = Str(req.instances[i].State)
                  /\ Member(s.instances.s[i], "type") = MapGet(req.instances[i].Details, "instanceType")

\* A list of three, in two states, one of them with an instanceType that is
\* not a string: the type counts sum to two.
C31_Witness ==
    /\ pc = "Formatted" /\ Len(req.instances) = 3
    /\ req.instances[1].State = <<"running">> /\ req.instances[2].State = <<"stopped">>
    /\ req.instances[2].Details = [instanceType |-> Num(<<"2">>)]
    /\ Cardinality(Typed) = 2
    /\ res.summary.total_instances = Int(3)
    /\ SumCounts(res.summary.summary_by_type.s, Len(res.summary.summary_by_type.s)) = 2
    /\ SumCounts(res.summary.summary_by_state.s, Len(res.summary.summary_by_state.s)) = 3

----------------------------------------------------------------------------
(* The data merged into a Success payload, checked under PayloadSpec *)

\* The keys of the base fields of a payload.
BaseKeys == {"success", "message", "timestamp"}

\* The keys of a JSON text.
KeysOf(text) == {text[i].key : i \in 1..Len(text)}

\* C32: createSuccessResponse writes the data after the base fields, so the
\* payload gives every key of the data the data's value, a base field
\* included, and keeps a base field only when the data has no such key; the
\* data the four tools pass has none of the keys success, message and
\* timestamp, so a payload they build with createSuccessResponse has
\* success=true, a message that is none of the data's values and the time
\* of the call.
C32_DataOverBase ==
    /\ (pc = "Responded") =>
          LET text == res.result.Content[1].Text
          IN  /\ KeysOf(text) = BaseKeys \cup DOMAIN req.data
              /\ \A k \in DOMAIN req.data : Member(text, k) = req.data[k]
              /\ "success" \notin DOMAIN req.data => Member(text, "success") = Bool(TRUE)
              /\ "message" \notin DOMAIN req.data => Member(text, "message") = Str(req.message)
              /\ "timestamp" \notin DOMAIN req.data => Member(text, "timestamp") = Str(req.now)
    /\ (Direct /\ req.name \in ToolNames /\ Valid(req.name, req.arguments.m) /\ ~req.collab.fails) =>
          LET text == res.result.Content[1].Text
          IN  /\ KeysOf(text) \ BaseKeys \subseteq {"instanceId", "state", "instanceType", "action"}
              /\ KeysOf(text) \ BaseKeys # {}
              /\ Member(text, "success") = Bool(TRUE)
              /\ NonEmptyString(text, "message")
              /\ Member(text, "message") \notin {Member(text, k) : k \in KeysOf(text) \ BaseKeys}
              /\ Member(text, "timestamp") = Str(req.now)
    /\ (Direct /\ req.name \in ToolNames /\ "message" \in KeysOf(res.result.Content[1].Text)) =>
          Member(res.result.Content[1].Text, "success") = Bool(TRUE)

\* A data map with the key success: the payload says success=false and keeps
\* the base message.
C32_Witness ==
    /\ pc = "Responded"
    /\ req.data = [success |-> Bool(FALSE), instanceId |-> Str(<<"i-new">>)]
    /\ Member(res.result.Content[1].Text, "success") = Bool(FALSE)
    /\ Member(res.result.Content[1].Text, "message") = Str(req.message)

====
